---------------------------- MODULE Spec2Model ----------------------------
(***************************************************************************)
(* Tool-contact physics core of the drawing studio:                        *)
(*   - useDrawingStrokeSystem   (src/src/components/ArtCanvas3D.tsx)       *)
(*   - CoordinateSmoothingEngine (src/src/components/ToolPanel.tsx)        *)
(*   - LeadTipGeometry / LEDTipGeometry                                    *)
(*         (src/src/components/LeadTipPhysics.tsx, ToolBar.tsx)            *)
(*                                                                         *)
(* Numbers.  Stroke points are integer vectors in units of 0.001 world     *)
(* units; pressures, widths and opacities are in thousandths.              *)
(* The smoothing engine computes in binary floating point: a number is an  *)
(* integer count of units of 1/One, and every arithmetic result is rounded *)
(* to the nearest number with MantBits significant bits, ties to even, as  *)
(* IEEE 754 does with 53 bits.                                             *)
(* The tip geometry is in fixed point: coordinates and distances in units  *)
(* of 1e-6 world units, wear in millionths, pressure, wear rate, hardness, *)
(* influence and the random draws in thousandths.                          *)
(***************************************************************************)
EXTENDS Integers, Sequences, FiniteSets, TLC

VARIABLES
    \* ---- useDrawingStrokeSystem -------------------------------------
    strokes,         \* useState<DrawingStroke[]>: value as of the last render
    currentStroke,   \* useState<DrawingStroke|null>: value as of the last render
                     \*   (this is what the addPointToStroke / endStroke closures see)
    pendingStrokes,  \* updates queued by setStrokes, not yet rendered
    pendingCurrent,  \* updates queued by setCurrentStroke, not yet rendered
    lastPoint,       \* useRef lastPoint.current
    lastTimestamp,   \* useRef lastTimestamp.current
    idSeq,           \* number of stroke ids handed out so far
    calls,           \* number of hook callbacks invoked so far
    lastCall,        \* name of the last callback invoked
    lastArg,         \* position passed to the last callback (Null if it takes none)
    trail,           \* history: where the call sequence stands relative to startStroke
    strokesAtStart,  \* history: the committed collection when startStroke was last called
    \* ---- CoordinateSmoothingEngine ----------------------------------
    history,         \* private history: SmoothPoint[]
    smoothed,        \* the SmoothPoint returned by the last convertTo2D (Null before)
    fed,             \* history: every raw SmoothPoint filtered since construction / clear()
    \* ---- LeadTipGeometry / LEDTipGeometry ---------------------------
    vertices,        \* vertices: LeadVertex[] of the LeadTipGeometry instance
                     \* (vertices.lead), LEDVertex[] of the LEDTipGeometry one (vertices.led)
    geometry,        \* the BufferGeometry updateGeometry built, per instance
    wearCalls,       \* number of applyWear calls so far
    wearBefore,      \* history: each vertex's wear before the last applyWear call
    frames,          \* number of useFrame callbacks run so far
    frame,           \* history: what the last useFrame callback did
    footprint,       \* history: the last getContactShape call, [contacts, shape]
    \* ---- ArtPhysicsEngine (Timeline.tsx) and ArtStudio (ArtStudio.tsx) ----
    state,           \* ArtPhysicsEngine.state: PhysicsState
    studio,          \* ArtStudio's React state as of the last render
    studioNext,      \* ArtStudio's React state with the queued setState calls applied
    response,        \* history: the last value calculatePressureResponse returned
    physicsOps,      \* number of engine / studio operations so far
    lastTool,        \* history: the argument of the last handleToolChange call
    tracked,         \* the caller of calculateToolAngle: its angle, its last pointer
                     \* position and (history) the arguments of the last call
    \* ---- Scene (ArtCanvas3D.tsx) --------------------------------------
    scene,           \* Scene's props, React state, refs and clock
    sceneFrame       \* history: the Scene as the useFrame callback that has just run
                     \* found it, and the random draws of that callback (Null when
                     \* the last step was no frame)

strokeVars == <<strokes, currentStroke, pendingStrokes, pendingCurrent,
                lastPoint, lastTimestamp, idSeq, calls, lastCall, lastArg,
                trail, strokesAtStart>>

smoothVars == <<history, smoothed, fed>>

tipVars == <<vertices, geometry, wearCalls, wearBefore, frames, frame, footprint>>

physicsVars == <<state, studio, studioNext, response, physicsOps, lastTool>>

sceneVars == <<tracked, scene, sceneFrame>>

vars == <<strokeVars, smoothVars, tipVars, physicsVars, sceneVars>>

-----------------------------------------------------------------------------
(* Generic helpers *)

Null == <<>>

Min(a, b) == IF a <= b THEN a ELSE b

Max(a, b) == IF a >= b THEN a ELSE b

Abs(a) == IF a >= 0 THEN a ELSE -a

Milli == 10 * 100

\* THREE.Vector3.distanceTo, squared (integer coordinates)
DistSq(a, b) ==
    (a[1] - b[1]) * (a[1] - b[1]) + (a[2] - b[2]) * (a[2] - b[2])
        + (a[3] - b[3]) * (a[3] - b[3])

-----------------------------------------------------------------------------
(* useDrawingStrokeSystem: bounds and inputs *)

MaxCalls == 5

MaxStrokeIds == 2

\* minimum spacing 0.003, in units of 0.001
MinSpacing == 3

StrokePoints == { <<0, 0, 0>>, <<3, 0, 0>>, <<4, 0, 0>> }

StrokePressures == { 200, 1000 }

ToolTypes == { "pencil", "brush" }

DefaultColor == "#2F2F2F"

\* values Date.now() returns
Clock == { 1 }

-----------------------------------------------------------------------------
(* Tool-specific width / opacity tables *)

getBaseWidth(toolType) ==
    CASE toolType = "pencil"           -> 1500
      [] toolType = "mechanicalPencil" -> 800
      [] toolType = "pen"              -> 1200
      [] toolType = "brush"            -> 3000
      [] toolType = "crayon"           -> 2500
      [] OTHER                         -> 1500

\* as calculateWidth, but the pencils' width follows the pressure as the pen's does
calculateWidthPencilVaries(pressure, toolType) ==
    LET baseWidth == getBaseWidth(toolType) IN
    CASE toolType = "brush"  -> (baseWidth * (500 + (pressure * 3) \div 2)) \div Milli
      [] toolType = "crayon" -> (baseWidth * (700 + (pressure * 4) \div 5)) \div Milli
      [] OTHER               -> (baseWidth * (800 + (pressure * 2) \div 5)) \div Milli

calculateWidth(pressure, toolType) ==
    LET baseWidth == getBaseWidth(toolType) IN
    CASE toolType \in {"pencil", "mechanicalPencil"} -> baseWidth
      [] toolType = "brush"  -> (baseWidth * (500 + (pressure * 3) \div 2)) \div Milli
      [] toolType = "pen"    -> (baseWidth * (800 + (pressure * 2) \div 5)) \div Milli
      [] toolType = "crayon" -> (baseWidth * (700 + (pressure * 4) \div 5)) \div Milli
      [] OTHER               -> baseWidth

calculateOpacity(pressure, toolType) ==
    CASE toolType \in {"pencil", "mechanicalPencil"} ->
             Min(Milli, 300 + (pressure * 7) \div 10)
      [] toolType = "brush"  -> Min(Milli, 500 + pressure \div 2)
      [] toolType = "pen"    -> Min(Milli, 700 + (pressure * 3) \div 10)
      [] toolType = "crayon" -> Min(Milli, 400 + (pressure * 3) \div 5)
      [] OTHER               -> Min(Milli, 300 + (pressure * 7) \div 10)

-----------------------------------------------------------------------------
(* React state updates.  A queued update is either a plain value or a       *)
(* functional updater; both are applied, in call order, at the next render. *)

\* setCurrentStroke(value)
SetCurrentValue(v) ==
    [op |-> "set", value |-> v, point |-> <<0, 0, 0>>, pressure |-> 0]

\* setCurrentStroke(prev => prev ? {...prev, points: [...], width, opacity} : null)
SetCurrentAppend(p, pressure) ==
    [op |-> "append", value |-> Null, point |-> p, pressure |-> pressure]

\* setStrokes([])
SetStrokesValue(v) == [op |-> "set", value |-> v]

\* setStrokes(prev => [...prev, stroke])
SetStrokesAppend(stroke) == [op |-> "append", value |-> <<stroke>>]

ApplyCurrentUpdate(prev, u) ==
    IF u.op = "set" THEN u.value
    ELSE IF prev = Null THEN Null
    ELSE << [ prev[1] EXCEPT
                !.points  = Append(@, u.point),
                !.width   = calculateWidth(u.pressure, prev[1].toolType),
                !.opacity = calculateOpacity(u.pressure, prev[1].toolType) ] >>

ApplyStrokesUpdate(prev, u) ==
    IF u.op = "set" THEN u.value ELSE prev \o u.value

RECURSIVE ApplyCurrentQueue(_, _)
ApplyCurrentQueue(prev, q) ==
    IF q = <<>> THEN prev
    ELSE ApplyCurrentQueue(ApplyCurrentUpdate(prev, Head(q)), Tail(q))

RECURSIVE ApplyStrokesQueue(_, _)
ApplyStrokesQueue(prev, q) ==
    IF q = <<>> THEN prev
    ELSE ApplyStrokesQueue(ApplyStrokesUpdate(prev, Head(q)), Tail(q))

\* The state the hook is in once the queued updates are applied: the
\* in-progress stroke and the committed collection.
InProgress == ApplyCurrentQueue(currentStroke, pendingCurrent)

Committed == ApplyStrokesQueue(strokes, pendingStrokes)

-----------------------------------------------------------------------------
(* useDrawingStrokeSystem: callbacks *)

StrokeInit ==
    /\ strokes = <<>>
    /\ currentStroke = Null
    /\ pendingStrokes = <<>>
    /\ pendingCurrent = <<>>
    /\ lastPoint = Null
    /\ lastTimestamp = 0
    /\ idSeq = 0
    /\ calls = 0
    /\ lastCall = "none"
    /\ lastArg = Null
    /\ trail = "idle"
    /\ strokesAtStart = <<>>

Called(name, position) ==
    /\ calls < MaxCalls
    /\ calls' = calls + 1
    /\ lastCall' = name
    /\ lastArg' = position

\* as startStroke, but starting a stroke also empties the committed collection
startStrokeClearing(position, pressure, toolType, color, now) ==
    LET newStroke == [ id        |-> idSeq + 1,
                       points    |-> << position >>,
                       pressure  |-> pressure,
                       toolType  |-> toolType,
                       color     |-> color,
                       timestamp |-> now,
                       width     |-> calculateWidth(pressure, toolType),
                       opacity   |-> calculateOpacity(pressure, toolType) ]
    IN  /\ idSeq < MaxStrokeIds
        /\ Called("startStroke", position)
        /\ idSeq' = idSeq + 1
        /\ pendingCurrent' = Append(pendingCurrent, SetCurrentValue(<<newStroke>>))
        /\ lastPoint' = position
        /\ lastTimestamp' = now
        /\ trail' = "started"
        /\ strokesAtStart' = Committed
        /\ pendingStrokes' = Append(pendingStrokes, SetStrokesValue(<<>>))
        /\ UNCHANGED <<strokes, currentStroke>>

startStroke(position, pressure, toolType, color, now) ==
    LET newStroke == [ id        |-> idSeq + 1,
                       points    |-> << position >>,
                       pressure  |-> pressure,
                       toolType  |-> toolType,
                       color     |-> color,
                       timestamp |-> now,
                       width     |-> calculateWidth(pressure, toolType),
                       opacity   |-> calculateOpacity(pressure, toolType) ]
    IN  /\ idSeq < MaxStrokeIds
        /\ Called("startStroke", position)
        /\ idSeq' = idSeq + 1
        /\ pendingCurrent' = Append(pendingCurrent, SetCurrentValue(<<newStroke>>))
        /\ lastPoint' = position
        /\ lastTimestamp' = now
        /\ trail' = "started"
        /\ strokesAtStart' = Committed
        /\ UNCHANGED <<strokes, currentStroke, pendingStrokes>>

\* as FarEnough, but a point at exactly the minimum spacing passes
FarEnoughInclusive(position) ==
    \/ lastPoint = Null
    \/ DistSq(lastPoint, position) >= MinSpacing * MinSpacing

\* the spacing test of addPointToStroke
FarEnough(position) ==
    \/ lastPoint = Null
    \/ DistSq(lastPoint, position) > MinSpacing * MinSpacing

addPointToStroke(position, pressure, now) ==
    /\ Called("addPointToStroke", position)
    /\ IF currentStroke = Null
       THEN UNCHANGED <<pendingCurrent, lastPoint, lastTimestamp, trail>>
       ELSE IF FarEnough(position)
            THEN /\ pendingCurrent' =
                        Append(pendingCurrent, SetCurrentAppend(position, pressure))
                 /\ lastPoint' = position
                 /\ lastTimestamp' = now
                 /\ trail' = "other"
            ELSE UNCHANGED <<pendingCurrent, lastPoint, lastTimestamp, trail>>
    /\ UNCHANGED <<strokes, currentStroke, pendingStrokes, idSeq, strokesAtStart>>

endStroke ==
    /\ Called("endStroke", Null)
    /\ IF currentStroke # Null /\ Len(currentStroke[1].points) > 1
       THEN pendingStrokes' = Append(pendingStrokes, SetStrokesAppend(currentStroke[1]))
       ELSE UNCHANGED pendingStrokes
    /\ pendingCurrent' = Append(pendingCurrent, SetCurrentValue(Null))
    /\ lastPoint' = Null
    /\ lastTimestamp' = 0
    /\ trail' = IF trail = "started" THEN "startEnd" ELSE "other"
    /\ UNCHANGED <<strokes, currentStroke, idSeq, strokesAtStart>>

\* as clearStrokes, but the in-progress stroke is left alone
clearStrokesKeepCurrent ==
    /\ Called("clearStrokes", Null)
    /\ pendingStrokes' = Append(pendingStrokes, SetStrokesValue(<<>>))
    /\ lastPoint' = Null
    /\ trail' = "other"
    /\ UNCHANGED <<strokes, currentStroke, pendingCurrent, lastTimestamp, idSeq,
                   strokesAtStart>>

clearStrokes ==
    /\ Called("clearStrokes", Null)
    /\ pendingStrokes' = Append(pendingStrokes, SetStrokesValue(<<>>))
    /\ pendingCurrent' = Append(pendingCurrent, SetCurrentValue(Null))
    /\ lastPoint' = Null
    /\ trail' = "other"
    /\ UNCHANGED <<strokes, currentStroke, lastTimestamp, idSeq, strokesAtStart>>

\* React re-renders the component: the queued updates are applied in order
\* and the callbacks are re-created over the new currentStroke.
Render ==
    /\ pendingStrokes # <<>> \/ pendingCurrent # <<>>
    /\ strokes' = Committed
    /\ currentStroke' = InProgress
    /\ pendingStrokes' = <<>>
    /\ pendingCurrent' = <<>>
    /\ UNCHANGED <<lastPoint, lastTimestamp, idSeq, calls, lastCall, lastArg,
                   trail, strokesAtStart>>

StartStrokeCall ==
    \E position \in StrokePoints, pressure \in StrokePressures,
       toolType \in ToolTypes, now \in Clock :
        startStroke(position, pressure, toolType, DefaultColor, now)

AddPointCall ==
    \E position \in StrokePoints, pressure \in StrokePressures, now \in Clock :
        addPointToStroke(position, pressure, now)

\* every tool kind the width and opacity tables name
StyledToolTypes == { "pencil", "mechanicalPencil", "brush", "crayon", "pen" }

\* startStroke with any tool kind, from the origin
StyledStrokeCall ==
    \E pressure \in StrokePressures, toolType \in StyledToolTypes, now \in Clock :
        startStroke(<< 0, 0, 0 >>, pressure, toolType, DefaultColor, now)

\* drawing with every tool kind: strokes are started and extended
StyleNext ==
    /\ \/ StyledStrokeCall
       \/ AddPointCall
       \/ Render
    /\ UNCHANGED <<smoothVars, tipVars, physicsVars, sceneVars>>

StrokeNext ==
    /\ \/ StartStrokeCall
       \/ AddPointCall
       \/ endStroke
       \/ clearStrokes
       \/ Render
    /\ UNCHANGED <<smoothVars, tipVars, physicsVars, sceneVars>>


-----------------------------------------------------------------------------
(* Floating-point arithmetic *)

\* significand width of the modelled floating-point format
MantBits == 10

\* the number 1.0
One == 2^12

RECURSIVE ShiftFor(_, _, _)
\* least s >= 0 with n / (d * 2^s) < 2^MantBits
ShiftFor(n, d, s) ==
    IF n \div (d * 2^s) < 2^MantBits THEN s ELSE ShiftFor(n, d, s + 1)

\* n / d (n >= 0, d > 0) rounded to the nearest representable number,
\* ties to even
RoundRatio(n, d) ==
    LET s   == ShiftFor(n, d, 0)
        dd  == d * 2^s
        q   == n \div dd
        rem == n - q * dd
        up  == 2 * rem > dd \/ (2 * rem = dd /\ q % 2 = 1)
    IN  (IF up THEN q + 1 ELSE q) * 2^s

FRatio(n, d) == IF n >= 0 THEN RoundRatio(n, d) ELSE -RoundRatio(-n, d)

\* a decimal literal num/den of the source
Lit(num, den) == FRatio(num * One, den)

FAdd(a, b) == FRatio(a + b, 1)

FSub(a, b) == FRatio(a - b, 1)

FMul(a, b) == FRatio(a * b, One)

\* a * w and a / w for an integer-valued w (a weight, a sum of weights)
FScale(a, w) == FRatio(a * w, 1)

FDivide(a, w) == FRatio(a, w)

-----------------------------------------------------------------------------
(* CoordinateSmoothingEngine *)

maxHistoryLength == 10

\* most filter calls between two clear() calls
MaxFed == 11

\* Inputs of convertTo2D: the 3D collision point, the pressure, and what the
\* downward raycast onto the paper returns: nothing (Null), or the first
\* intersection: its height, the angle of its face normal to "up" as a
\* fraction of pi, and the three sin*cos products getTextureNoise forms at
\* its (x, z).
CollisionInputs ==
    { [ collision3D |-> << Lit(3, 10), 0, Lit(7, 10) >>,
        pressure    |-> Lit(7, 10),
        hit         |-> Null ],
      [ collision3D |-> << -Lit(13, 10), Lit(1, 10), Lit(3, 4) >>,
        pressure    |-> One,
        hit         |-> << [ y |-> Lit(1, 4), anglePi |-> 0,
                             waves |-> << One, One, One >> ] >> ] }

\* getTextureNoise, given the three sin(x*scale)*cos(z*scale) products
getTextureNoise(waves) ==
    LET noise1 == FMul(waves[1], Lit(4, 10))
        noise2 == FMul(waves[2], Lit(3, 10))
        noise3 == FMul(waves[3], Lit(3, 10))
    IN  FAdd(FMul(FAdd(FAdd(noise1, noise2), noise3), Lit(1, 2)), Lit(1, 2))

FMin(a, b) == IF a <= b THEN a ELSE b

FMax(a, b) == IF a >= b THEN a ELSE b

\* as RawSmoothPoint, but the friction is stored without the clamp
RawSmoothPointUnclamped(collision3D, pressure, hit) ==
    [ position      |-> << collision3D[1], collision3D[3] >>,
      pressure      |-> pressure,
      surfaceHeight |-> IF hit = Null THEN collision3D[2] ELSE hit[1].y,
      friction      |->
          IF hit = Null THEN Lit(8, 10)
          ELSE FAdd(FAdd(Lit(6, 10), FMul(FSub(One, hit[1].anglePi), Lit(4, 10))),
                    FMul(getTextureNoise(hit[1].waves), Lit(1, 10))) ]

\* the raw SmoothPoint convertTo2D builds before filtering
RawSmoothPoint(collision3D, pressure, hit) ==
    LET surfaceHeight == IF hit = Null THEN collision3D[2] ELSE hit[1].y
        friction ==
            IF hit = Null THEN Lit(8, 10)
            ELSE LET base == FAdd(Lit(6, 10),
                                  FMul(FSub(One, hit[1].anglePi), Lit(4, 10)))
                 IN  FAdd(base, FMul(getTextureNoise(hit[1].waves), Lit(1, 10)))
    IN  [ position      |-> << collision3D[1], collision3D[3] >>,
          pressure      |-> pressure,
          surfaceHeight |-> surfaceHeight,
          friction      |-> FMax(Lit(3, 10), FMin(One, friction)) ]

\* as PushHistory, but at capacity the entry just pushed is the one removed
PushHistoryDropNewest(h, point) ==
    LET pushed == Append(h, point)
    IN  IF Len(pushed) > maxHistoryLength
        THEN SubSeq(pushed, 1, Len(pushed) - 1)
        ELSE pushed

\* history.push(point); if (history.length > maxHistoryLength) history.shift()
PushHistory(h, point) ==
    LET pushed == Append(h, point)
    IN  IF Len(pushed) > maxHistoryLength THEN Tail(pushed) ELSE pushed

\* as TotalWeight, but the entries are counted instead of weighted
TotalWeightCount(n) == n

RECURSIVE TotalWeight(_)
\* totalWeight after the loop over n history entries: 2^0 + ... + 2^(n-1)
TotalWeight(n) ==
    IF n = 0 THEN 0 ELSE FRatio(TotalWeight(n - 1) + 2^(n - 1), 1)

\* the number of a history entry that a running sum accumulates
FieldOf(pt, field) ==
    CASE field = "x"        -> pt.position[1]
      [] field = "z"        -> pt.position[2]
      [] field = "pressure" -> pt.pressure
      [] field = "friction" -> pt.friction

RECURSIVE WeightedSum(_, _, _)
\* the running sum (smoothedX, smoothedZ, ...) after the first n entries
WeightedSum(h, n, field) ==
    IF n = 0 THEN 0
    ELSE FAdd(WeightedSum(h, n - 1, field), FScale(FieldOf(h[n], field), 2^(n - 1)))

\* as RawBelow, but only a history of fewer than 2 entries is returned raw
RawBelowTwo(h) == Len(h) < 2

\* if (this.history.length < 3) return point
RawBelow(h) == Len(h) < 3

\* as FilterResult, but the weighted output carries the surface height of
\* the oldest history entry
FilterResultOldHeight(h, point) ==
    IF RawBelow(h) THEN point
    ELSE LET totalWeight == TotalWeight(Len(h))
         IN  [ position      |->
                   << FDivide(WeightedSum(h, Len(h), "x"), totalWeight),
                      FDivide(WeightedSum(h, Len(h), "z"), totalWeight) >>,
               pressure      |-> FDivide(WeightedSum(h, Len(h), "pressure"), totalWeight),
               surfaceHeight |-> h[1].surfaceHeight,
               friction      |-> FDivide(WeightedSum(h, Len(h), "friction"), totalWeight) ]

\* what applySmoothingFilter returns, given the history after the push
FilterResult(h, point) ==
    IF RawBelow(h) THEN point
    ELSE LET totalWeight == TotalWeight(Len(h))
         IN  [ position      |->
                   << FDivide(WeightedSum(h, Len(h), "x"), totalWeight),
                      FDivide(WeightedSum(h, Len(h), "z"), totalWeight) >>,
               pressure      |-> FDivide(WeightedSum(h, Len(h), "pressure"), totalWeight),
               surfaceHeight |-> point.surfaceHeight,
               friction      |-> FDivide(WeightedSum(h, Len(h), "friction"), totalWeight) ]

SmoothInit ==
    /\ history = <<>>
    /\ smoothed = Null
    /\ fed = <<>>

applySmoothingFilter(point) ==
    /\ history' = PushHistory(history, point)
    /\ smoothed' = << FilterResult(history', point) >>
    /\ fed' = Append(fed, point)

convertTo2D(collision3D, pressure, hit) ==
    /\ Len(fed) < MaxFed
    /\ applySmoothingFilter(RawSmoothPoint(collision3D, pressure, hit))

ConvertTo2DCall ==
    \E in \in CollisionInputs : convertTo2D(in.collision3D, in.pressure, in.hit)

\* clear()
SmootherClear ==
    /\ history' = <<>>
    /\ fed' = <<>>
    /\ UNCHANGED smoothed

SmoothNext ==
    /\ ConvertTo2DCall \/ SmootherClear
    /\ UNCHANGED <<strokeVars, tipVars, physicsVars, sceneVars>>

-----------------------------------------------------------------------------
(* LeadTipGeometry (LeadTipPhysics.tsx) and LEDTipGeometry (ToolBar.tsx) *)

Micro == 10^6

\* a / b rounded toward zero (b > 0)
TruncDiv(a, b) == IF a >= 0 THEN a \div b ELSE -((-a) \div b)

RECURSIVE SqrtBetween(_, _, _)
\* the r in lo..hi with r*r <= n < (r+1)*(r+1)
SqrtBetween(n, lo, hi) ==
    IF lo = hi THEN lo
    ELSE LET mid == (lo + hi + 1) \div 2
         IN  IF mid * mid <= n THEN SqrtBetween(n, mid, hi)
             ELSE SqrtBetween(n, lo, mid - 1)

\* Math.sqrt, rounded down (n < 2^30)
Sqrt(n) == SqrtBetween(n, 0, 32767)

\* constructor defaults: radius = 0.02, height = 0.1
radius == 20000

height == 100000

\* the segments argument of the constructor
segments == 2

rings == 3

\* applyWear of LeadTipGeometry: wearRadius = 0.008
wearRadius == 8000

\* applyWear of LEDTipGeometry: minDistance < 0.01
ledReach == 10000

\* checkCollisionWithSurface: surfaceY + 0.001
contactBand == 1000

\* most applyWear calls in a run
MaxWearCalls == 3

\* Math.cos and Math.sin of an angle in degrees, in thousandths
CosMilli(deg) ==
    CASE deg = 0   -> 1000  [] deg = 60  -> 500   [] deg = 72  -> 309
      [] deg = 90  -> 0     [] deg = 120 -> -500  [] deg = 144 -> -809
      [] deg = 180 -> -1000 [] deg = 216 -> -809  [] deg = 240 -> -500
      [] deg = 270 -> 0     [] deg = 288 -> 309   [] deg = 300 -> 500

SinMilli(deg) ==
    CASE deg = 0   -> 0     [] deg = 60  -> 866   [] deg = 72  -> 951
      [] deg = 90  -> 1000  [] deg = 120 -> 866   [] deg = 144 -> 588
      [] deg = 180 -> 0     [] deg = 216 -> -588  [] deg = 240 -> -866
      [] deg = 270 -> -1000 [] deg = 288 -> -951  [] deg = 300 -> -866

\* one vertex of a ring: segment i (from 0) of a ring of radius r at height y
RingVertex(i, r, y, hardness) ==
    LET deg == (360 * i) \div segments
        pos == << TruncDiv(CosMilli(deg) * r, 1000), y,
                  TruncDiv(SinMilli(deg) * r, 1000) >>
    IN  [ position |-> pos, originalPosition |-> pos, wear |-> 0,
          hardness |-> hardness ]

\* as generateInitialGeometry, but the intermediate rings come before the
\* base circle
generateInitialGeometryRingsFirst(kind) ==
    LET up   == IF kind = "lead" THEN 1 ELSE -1
        apex == IF kind = "lead" THEN << 0, 0, 0 >> ELSE << 0, -height, 0 >>
        baseY == IF kind = "lead" THEN height ELSE 0
    IN  [ k \in 1..(1 + segments * (rings + 1)) |->
            IF k = 1
            THEN [ position |-> apex, originalPosition |-> apex, wear |-> 0,
                   hardness |-> 700 ]
            ELSE LET ring == 1 + (k - 2) \div segments
                     i    == (k - 2) % segments
                 IN  IF ring = rings + 1
                     THEN RingVertex(i, radius, baseY, 900)
                     ELSE RingVertex(i,
                                     (radius * (rings + 1 - ring)) \div (rings + 1),
                                     up * ((height * ring) \div (rings + 1)),
                                     800) ]

\* generateInitialGeometry: apex, base circle, then the intermediate rings.
\* The lead tip has its apex at the origin and its base at +height; the LED
\* tip has its apex at -height and its base at 0.
generateInitialGeometry(kind) ==
    LET up   == IF kind = "lead" THEN 1 ELSE -1
        apex == IF kind = "lead" THEN << 0, 0, 0 >> ELSE << 0, -height, 0 >>
        baseY == IF kind = "lead" THEN height ELSE 0
    IN  [ k \in 1..(1 + segments * (rings + 1)) |->
            IF k = 1
            THEN [ position |-> apex, originalPosition |-> apex, wear |-> 0,
                   hardness |-> 700 ]
            ELSE LET ring == (k - 2) \div segments
                     i    == (k - 2) % segments
                 IN  IF ring = 0
                     THEN RingVertex(i, radius, baseY, 900)
                     ELSE RingVertex(i,
                                     (radius * (rings + 1 - ring)) \div (rings + 1),
                                     up * ((height * ring) \div (rings + 1)),
                                     800) ]

\* updateGeometry: the position attribute and the index of the new geometry
updateGeometry(verts) ==
    LET segs == (Len(verts) - 1) \div 4
    IN  [ positions |-> [ i \in 1..Len(verts) |-> verts[i].position ],
          indices   |-> [ i \in 1..segs |-> << 0, i, 1 + (i % segs) >> ] ]

\* vertex.position.clone().applyMatrix4(toolWorldMatrix), the matrix being
\* the translation by t
applyMatrix4(v, t) == << v[1] + t[1], v[2] + t[2], v[3] + t[3] >>

\* squared distance, exact wherever it is below farSq; farSq for everything
\* two points at a coordinate distance of 20000 or more apart
farSq == 3 * 20000 * 20000

NearDistSq(a, b) ==
    IF \E i \in 1..3 : Abs(a[i] - b[i]) >= 20000 THEN farSq ELSE DistSq(a, b)

\* area: Math.PI * 0.001 * 0.001, in units of 1e-9
contactArea == 3142

RECURSIVE ContactsFrom(_, _, _, _)
\* checkCollisionWithSurface, from vertex k on
ContactsFrom(verts, k, surfaceY, t) ==
    IF k > Len(verts) THEN <<>>
    ELSE LET worldPos == applyMatrix4(verts[k].position, t)
             rest     == ContactsFrom(verts, k + 1, surfaceY, t)
         IN  IF worldPos[2] <= surfaceY + contactBand
             THEN << [ position |-> << worldPos[1], surfaceY, worldPos[3] >>,
                       normal   |-> << 0, 1, 0 >>,
                       area     |-> contactArea,
                       pressure |-> Max(0, TruncDiv(surfaceY - worldPos[2], 10)) ] >>
                  \o rest
             ELSE rest

RECURSIVE SignedContactsFrom(_, _, _, _)
\* as ContactsFrom, but the pressure is the signed penetration * 100
SignedContactsFrom(verts, k, surfaceY, t) ==
    IF k > Len(verts) THEN <<>>
    ELSE LET worldPos == applyMatrix4(verts[k].position, t)
             rest     == SignedContactsFrom(verts, k + 1, surfaceY, t)
         IN  IF worldPos[2] <= surfaceY + contactBand
             THEN << [ position |-> << worldPos[1], surfaceY, worldPos[3] >>,
                       normal   |-> << 0, 1, 0 >>,
                       area     |-> contactArea,
                       pressure |-> TruncDiv(surfaceY - worldPos[2], 10) ] >>
                  \o rest
             ELSE rest

\* as checkCollisionWithSurface, but without Math.max(0, ...)
checkCollisionWithSurfaceSigned(verts, surfaceY, t) ==
    SignedContactsFrom(verts, 1, surfaceY, t)

checkCollisionWithSurface(verts, surfaceY, t) == ContactsFrom(verts, 1, surfaceY, t)

\* Math.pow(x, 1.2) for x >= 0 in thousandths: tabulated at
\* 0, 0.1, 0.25, 0.5, 1, 2, 4, 8, 16 and interpolated in between
PowKnots == << <<0, 0>>, <<100, 63>>, <<250, 189>>, <<500, 435>>, <<1000, 1000>>,
               <<2000, 2297>>, <<4000, 5278>>, <<8000, 12126>>, <<16000, 27858>> >>

Pow12(x) ==
    LET k  == CHOOSE j \in 1..(Len(PowKnots) - 1) :
                  /\ PowKnots[j][1] <= x
                  /\ (x < PowKnots[j + 1][1] \/ j = Len(PowKnots) - 1)
        x0 == PowKnots[k][1]
        y0 == PowKnots[k][2]
        x1 == PowKnots[k + 1][1]
        y1 == PowKnots[k + 1][2]
    IN  y0 + ((x - x0) * (y1 - y0)) \div (x1 - x0)

\* 1 / Math.pow(hardness, 0.8) for the three hardness values, in thousandths
InvPow08(hardness) ==
    CASE hardness = 700 -> 1330
      [] hardness = 800 -> 1195
      [] hardness = 900 -> 1088

\* the values Math.random() returns, in thousandths, by draw number
RandomStreams == { "low", "alternating" }

Random(stream, draw) ==
    CASE stream = "low" -> 0
      [] OTHER          -> IF draw % 2 = 0 THEN 0 ELSE 999

\* as AccumulateWear, but the new amount replaces the accumulated wear
AccumulateWearOverwrite(wear, wearAmount) == Min(Micro, wearAmount)

\* as AccumulateWear, but without the clamp
AccumulateWearUnclamped(wear, wearAmount) == wear + wearAmount

\* vertex.wear = Math.min(1, vertex.wear + wearAmount)
AccumulateWear(wear, wearAmount) == Min(Micro, wear + wearAmount)

\* LeadTipGeometry: pressureFactor * wearRate * hardnessFactor * influence * 0.1
LeadWearAmount(pressure, wearRate, hardness, influence) ==
    LET rated  == Pow12(pressure) * wearRate                \* millionths
        factor == (InvPow08(hardness) * influence) \div 1000  \* 1e-4: includes * 0.1
    IN  IF rated <= Micro THEN (rated * factor) \div 10000
        ELSE ((rated \div 100) * factor) \div 100

\* as LeadWearVertex, but the offset is added to the current position
LeadWearVertexFromCurrent(v, contact, influence, wearRate, stream, draws) ==
    LET wear     == AccumulateWear(v.wear,
                        LeadWearAmount(contact.pressure, wearRate, v.hardness, influence))
        down     == (wear * 15) \div 1000
        lateralX == TruncDiv((Random(stream, draws) - 500) * wear, Micro)
        lateralZ == TruncDiv((Random(stream, draws + 1) - 500) * wear, Micro)
        flat     == IF wear > 300000 THEN (wear - 300000) \div 50 ELSE 0
    IN  [ v EXCEPT
            !.wear = wear,
            !.position = << v.position[1] - contact.normal[1] * down + lateralX,
                            v.position[2] - contact.normal[2] * down + flat,
                            v.position[3] - contact.normal[3] * down + lateralZ >> ]

\* LeadTipGeometry.applyWear, inner loop body: one affected vertex
LeadWearVertex(v, contact, influence, wearRate, stream, draws) ==
    LET wear     == AccumulateWear(v.wear,
                        LeadWearAmount(contact.pressure, wearRate, v.hardness, influence))
        down     == (wear * 15) \div 1000
        lateralX == TruncDiv((Random(stream, draws) - 500) * wear, Micro)
        lateralZ == TruncDiv((Random(stream, draws + 1) - 500) * wear, Micro)
        flat     == IF wear > 300000 THEN (wear - 300000) \div 50 ELSE 0
    IN  [ v EXCEPT
            !.wear = wear,
            !.position = << v.originalPosition[1] - contact.normal[1] * down + lateralX,
                            v.originalPosition[2] - contact.normal[2] * down + flat,
                            v.originalPosition[3] - contact.normal[3] * down + lateralZ >> ]

\* 1 - distance / wearRadius, for a squared distance below wearRadius^2
Influence(distSq) == 1000 - (Sqrt(distSq) * 1000) \div wearRadius

RECURSIVE LeadWearAffected(_, _, _, _, _, _, _)
\* the loop over affectedVertices, from vertex k on; near[k] is the squared
\* distance of vertex k found by the first loop
LeadWearAffected(st, k, near, contact, t, wearRate, stream) ==
    IF k > Len(st.verts) THEN st
    ELSE IF near[k] < wearRadius * wearRadius
         THEN LeadWearAffected(
                  [ verts |-> [ st.verts EXCEPT ![k] =
                                  LeadWearVertex(@, contact, Influence(near[k]),
                                                 wearRate, stream, st.draws) ],
                    draws |-> st.draws + 2 ],
                  k + 1, near, contact, t, wearRate, stream)
         ELSE LeadWearAffected(st, k + 1, near, contact, t, wearRate, stream)

\* as LeadWearContact, but every vertex counts as lying on the contact
LeadWearContactEverywhere(st, contact, t, wearRate, stream) ==
    LeadWearAffected(st, 1, [ k \in 1..Len(st.verts) |-> 0 ], contact, t, wearRate, stream)

\* one pass of contacts.forEach in LeadTipGeometry.applyWear
LeadWearContact(st, contact, t, wearRate, stream) ==
    LET near == [ k \in 1..Len(st.verts) |->
                    NearDistSq(applyMatrix4(st.verts[k].position, t), contact.position) ]
    IN  LeadWearAffected(st, 1, near, contact, t, wearRate, stream)

\* LEDTipGeometry: (contact.pressure * wearRate) / closestVertex.hardness
LedWearAmount(pressure, wearRate, hardness) ==
    LET rated == pressure * wearRate                        \* millionths
    IN  IF rated <= Micro THEN (rated * 1000) \div hardness
        ELSE (rated \div hardness) * 1000

\* one pass of contacts.forEach in LEDTipGeometry.applyWear
LedWearContact(st, contact, t, wearRate, stream) ==
    LET near == [ k \in 1..Len(st.verts) |->
                    NearDistSq(applyMatrix4(st.verts[k].position, t), contact.position) ]
        closest == CHOOSE k \in 1..Len(st.verts) :
                       /\ \A j \in 1..Len(st.verts) : near[k] <= near[j]
                       /\ \A j \in 1..(k - 1) : near[j] > near[k]
        v    == st.verts[closest]
        wear == AccumulateWear(v.wear,
                               LedWearAmount(contact.pressure, wearRate, v.hardness))
        up   == wear \div 50
        rnd  == wear > 100000
        randomX == IF rnd THEN TruncDiv((Random(stream, st.draws) - 500) * 2 * wear, Micro)
                   ELSE 0
        randomZ == IF rnd THEN TruncDiv((Random(stream, st.draws + 1) - 500) * 2 * wear, Micro)
                   ELSE 0
    IN  IF near[closest] < ledReach * ledReach
        THEN [ verts |-> [ st.verts EXCEPT ![closest] =
                             [ v EXCEPT !.wear = wear,
                                        !.position = << v.originalPosition[1] + randomX,
                                                        v.originalPosition[2] + up,
                                                        v.originalPosition[3] + randomZ >> ] ],
               draws |-> IF rnd THEN st.draws + 2 ELSE st.draws ]
        ELSE st

RECURSIVE WearContacts(_, _, _, _, _, _)
\* contacts.forEach(...)
WearContacts(kind, st, contacts, t, wearRate, stream) ==
    IF contacts = <<>> THEN st
    ELSE WearContacts(kind,
                      IF kind = "lead"
                      THEN LeadWearContact(st, Head(contacts), t, wearRate, stream)
                      ELSE LedWearContact(st, Head(contacts), t, wearRate, stream),
                      Tail(contacts), t, wearRate, stream)

\* the vertices after applyWear(contacts, toolWorldMatrix, wearRate)
WornVertices(kind, verts, contacts, t, wearRate, stream) ==
    WearContacts(kind, [ verts |-> verts, draws |-> 0 ], contacts, t, wearRate,
                 stream).verts

\* the two tip classes, one instance of each
TipKinds == { "lead", "led" }

WearOf(verts) == [ i \in 1..Len(verts) |-> verts[i].wear ]

TipInit ==
    /\ vertices = [ kind \in TipKinds |-> generateInitialGeometry(kind) ]
    /\ geometry = [ kind \in TipKinds |-> updateGeometry(vertices[kind]) ]
    /\ wearCalls = 0
    /\ wearBefore = [ kind \in TipKinds |-> WearOf(vertices[kind]) ]
    /\ frames = 0
    /\ frame = Null
    /\ footprint = Null

applyWear(kind, contacts, t, wearRate, stream) ==
    /\ wearCalls < MaxWearCalls
    /\ wearCalls' = wearCalls + 1
    /\ vertices' = [ vertices EXCEPT ![kind] =
                       WornVertices(kind, @, contacts, t, wearRate, stream) ]
    /\ geometry' = [ geometry EXCEPT ![kind] = updateGeometry(vertices'[kind]) ]
    /\ wearBefore' = [ k \in TipKinds |-> WearOf(vertices[k]) ]
    /\ UNCHANGED << frames, frame, footprint >>

\* as UpdateGeometryCall, but the rebuild also reverses the vertex array
UpdateGeometryReordering(kind) ==
    /\ vertices' = [ vertices EXCEPT ![kind] =
                       [ i \in 1..Len(@) |-> @[Len(@) + 1 - i] ] ]
    /\ geometry' = [ geometry EXCEPT ![kind] = updateGeometry(vertices'[kind]) ]
    /\ UNCHANGED << wearCalls, wearBefore, frames, frame, footprint >>

\* updateGeometry() called on its own: it reads the vertices and replaces
\* the geometry
UpdateGeometryCall(kind) ==
    /\ geometry' = [ geometry EXCEPT ![kind] = updateGeometry(vertices[kind]) ]
    /\ UNCHANGED << vertices, wearCalls, wearBefore, frames, frame, footprint >>

\* heights of the tip's apex over the surface at which the host poses the tool
ApexLevels == { 2000, -3000, -78000 }

\* the tool world matrix (a translation) that puts the apex at that level
\* over a surface at surfaceY
ToolMatrix(kind, surfaceY, level) ==
    << 0, surfaceY + level - generateInitialGeometry(kind)[1].originalPosition[2], 0 >>

SurfaceLevels == { 0 }

\* wear rates: 0, pressure 1 * 0.002, and 2
WearRates == { 0, 2, 2000 }

\* useFrame: applyWear on the contacts checkCollisionWithSurface reports for
\* the pose (none when the tip is clear of the surface)
ApplyWearCall ==
    \E kind \in TipKinds, surfaceY \in SurfaceLevels, level \in ApexLevels,
       wearRate \in WearRates, stream \in RandomStreams :
        LET t == ToolMatrix(kind, surfaceY, level)
        IN  applyWear(kind, checkCollisionWithSurface(vertices[kind], surfaceY, t),
                      t, wearRate, stream)

TipNext ==
    /\ \/ ApplyWearCall
       \/ \E kind \in TipKinds : UpdateGeometryCall(kind)
    /\ UNCHANGED <<strokeVars, smoothVars, physicsVars, sceneVars>>

-----------------------------------------------------------------------------
(* getContactShape and the useFrame callbacks of LeadTip and LEDTip *)

\* most useFrame callbacks in a run
MaxFrames == 3

RECURSIVE SumOver(_, _)
\* the sum of f[1] .. f[n]
SumOver(f, n) == IF n = 0 THEN 0 ELSE SumOver(f, n - 1) + f[n]

\* the second moments are summed over coordinates in units of 2e-4
shapeGrain == 200

\* Math.atan(q) for q in [0, 1], both in thousandths
AtanUnit(q) == (q * 785) \div 1000 + (273 * ((q * (1000 - q)) \div 1000)) \div 1000

\* Math.atan2(y, x) in thousandths of a radian
Atan2(y, x) ==
    IF x = 0 /\ y = 0 THEN 0
    ELSE LET ax   == Abs(x)
             ay   == Abs(y)
             acute == IF ax >= ay THEN AtanUnit((ay * 1000) \div ax)
                      ELSE 1571 - AtanUnit((ax * 1000) \div ay)
             upper == IF x >= 0 THEN acute ELSE 3142 - acute
         IN  IF y >= 0 THEN upper ELSE -upper

\* as Elongated, but only ratio > 2 is asked
ElongatedAlongX(sumX2, sumZ2) ==
    IF sumZ2 = 0 THEN sumX2 > 0 ELSE sumX2 > 4 * sumZ2

\* Math.sqrt(sumX2 / sumZ2) against 2 and 0.5: x / 0 is Infinity for x > 0
\* and 0 / 0 is NaN, which compares false with everything
Elongated(sumX2, sumZ2) ==
    IF sumZ2 = 0 THEN sumX2 > 0
    ELSE sumX2 > 4 * sumZ2 \/ 4 * sumX2 < sumZ2

\* as getContactShape, but a single contact is classified as a line
getContactShapeSingleLine(contacts) ==
    [ center      |-> IF contacts = <<>> THEN << 0, 0, 0 >> ELSE contacts[1].position,
      area        |-> SumOver([ i \in 1..Len(contacts) |-> contacts[i].area ], Len(contacts)),
      shape       |-> IF Len(contacts) = 1 THEN "line" ELSE "point",
      orientation |-> 0 ]

getContactShape(contacts) ==
    LET n == Len(contacts)
    IN  IF n = 0
        THEN [ center |-> << 0, 0, 0 >>, area |-> 0, shape |-> "point", orientation |-> 0 ]
        ELSE LET center == [ c \in 1..3 |->
                               TruncDiv(SumOver([ i \in 1..n |-> contacts[i].position[c] ], n), n) ]
                 totalArea == SumOver([ i \in 1..n |-> contacts[i].area ], n)
                 posX  == [ i \in 1..n |-> TruncDiv(contacts[i].position[1] - center[1], shapeGrain) ]
                 posZ  == [ i \in 1..n |-> TruncDiv(contacts[i].position[3] - center[3], shapeGrain) ]
                 sumX2 == SumOver([ i \in 1..n |-> posX[i] * posX[i] ], n)
                 sumZ2 == SumOver([ i \in 1..n |-> posZ[i] * posZ[i] ], n)
                 sumXZ == SumOver([ i \in 1..n |-> posX[i] * posZ[i] ], n)
                 turned == TruncDiv(Atan2(sumXZ, sumX2 - sumZ2), 2)
             IN  IF n > 1 /\ Elongated(sumX2, sumZ2)
                 THEN [ center |-> center, area |-> totalArea, shape |-> "line",
                        orientation |-> turned ]
                 ELSE IF n > 3
                 THEN [ center |-> center, area |-> totalArea, shape |-> "oval",
                        orientation |-> turned ]
                 ELSE [ center |-> center, area |-> totalArea, shape |-> "point",
                        orientation |-> 0 ]

\* a contact at (x, 0, z)
ContactAt(x, z) ==
    [ position |-> << x, 0, z >>, normal |-> << 0, 1, 0 >>, area |-> contactArea,
      pressure |-> 1000 ]

\* most contacts in a list handed to getContactShape directly
MaxContacts == 4

\* where those contacts are: four places in a row along X and two off the row
ContactPlaces == { << 0, 0 >>, << 1000, 0 >>, << 2000, 0 >>, << 3000, 0 >>,
                   << 1000, 1000 >>, << 1000, 3000 >> }

\* getContactShape called directly: first on no contacts, then on the list
\* of the call before with one more contact
GetContactShapeCall ==
    /\ \E contacts \in
              IF footprint = Null THEN { <<>> }
              ELSE { Append(footprint[1].contacts, ContactAt(xz[1], xz[2])) :
                     xz \in ContactPlaces } :
           /\ Len(contacts) <= MaxContacts
           /\ footprint' = << [ contacts |-> contacts,
                                shape |-> getContactShape(contacts) ] >>
    /\ UNCHANGED << vertices, geometry, wearCalls, wearBefore, frames, frame >>

\* heights of the apex over the surface in a frame: clear of the surface,
\* inside the contact band above it, and the penetrating ones
FrameLevels == ApexLevels \cup { 500 }

\* the pressure prop
FramePressures == { 1000 }

\* avgWear and snapshot, the arguments of onWearUpdate
WearSummary(verts) ==
    [ avgWear  |-> SumOver(WearOf(verts), Len(verts)) \div Len(verts),
      snapshot |-> [ i \in 1..Len(verts) |->
                       [ position |-> verts[i].position, wear |-> verts[i].wear ] ] ]

\* as SummaryVertices, but the summary is taken before the wear of the frame
SummaryVerticesBeforeWear(before, after) == before

\* leadGeometry.vertices as the wear summary reads them: the summary comes
\* after applyWear in the callback
SummaryVertices(before, after) == after

\* as FrameWears, but whether the tool is drawing is not asked
FrameWearsUndrawn(contacts, isDrawing) == contacts # <<>>

\* if (contacts.length > 0) { if (isDrawing) applyWear(...) }
FrameWears(contacts, isDrawing) == contacts # <<>> /\ isDrawing

\* what both callbacks do once they have a world matrix: detect, wear if
\* drawing, classify, then call back
FrameBody(kind, t, surfaceY, isDrawing, wearRate, stream, reportsWear) ==
    LET before   == vertices[kind]
        contacts == checkCollisionWithSurface(before, surfaceY, t)
        wears    == FrameWears(contacts, isDrawing)
        after    == IF wears THEN WornVertices(kind, before, contacts, t, wearRate, stream)
                    ELSE before
    IN  /\ frames < MaxFrames
        /\ frames' = frames + 1
        /\ vertices' = [ vertices EXCEPT ![kind] = after ]
        /\ geometry' = IF wears
                       THEN [ geometry EXCEPT ![kind] = updateGeometry(after) ]
                       ELSE geometry
        /\ wearCalls' = IF wears THEN wearCalls + 1 ELSE wearCalls
        /\ wearBefore' = IF wears THEN [ k \in TipKinds |-> WearOf(vertices[k]) ]
                         ELSE wearBefore
        /\ footprint' = IF contacts # <<>>
                        THEN << [ contacts |-> contacts, shape |-> getContactShape(contacts) ] >>
                        ELSE footprint
        /\ frame' = << [ kind         |-> kind,
                         isDrawing    |-> isDrawing,
                         surfaceY     |-> surfaceY,
                         worldMatrix  |-> t,
                         detectedOn   |-> before,
                         contacts     |-> contacts,
                         wornWith     |-> IF wears THEN << contacts >> ELSE Null,
                         onContact    |-> IF contacts # <<>>
                                          THEN << [ contacts |-> contacts,
                                                    shape |-> getContactShape(contacts) ] >>
                                          ELSE Null,
                         onWearUpdate |-> IF contacts # <<>> /\ reportsWear
                                          THEN << WearSummary(SummaryVertices(before, after)) >>
                                          ELSE Null ] >>

\* the useFrame callback of LeadTip; onWearUpdate is an optional prop, and
\* pressure is read only when the frame wears the tip
LeadTipFrame ==
    \E surfaceY \in SurfaceLevels, level \in FrameLevels, reportsWear \in BOOLEAN :
        LET t == ToolMatrix("lead", surfaceY, level)
        IN  \/ \E pressure \in FramePressures :
                   FrameBody("lead", t, surfaceY, FALSE, (pressure * 2) \div 1000,
                             "low", reportsWear)
            \/ \E pressure \in FramePressures, stream \in RandomStreams :
                   FrameBody("lead", t, surfaceY, TRUE, (pressure * 2) \div 1000,
                             stream, reportsWear)

\* the useFrame callback of LEDTip: it returns at once unless isDrawing
LEDTipFrame ==
    \/ /\ frames < MaxFrames
       /\ frames' = frames + 1
       /\ \E surfaceY \in SurfaceLevels :
              frame' = << [ kind |-> "led", isDrawing |-> FALSE, surfaceY |-> surfaceY,
                            worldMatrix |-> Null, detectedOn |-> Null, contacts |-> <<>>,
                            wornWith |-> Null, onContact |-> Null,
                            onWearUpdate |-> Null ] >>
       /\ UNCHANGED << vertices, geometry, wearCalls, wearBefore, footprint >>
    \/ \E surfaceY \in SurfaceLevels, level \in FrameLevels,
          pressure \in FramePressures, stream \in RandomStreams :
           FrameBody("led", ToolMatrix("led", surfaceY, level), surfaceY, TRUE,
                     pressure \div 1000, stream, FALSE)

FrameNext ==
    /\ LeadTipFrame \/ LEDTipFrame
    /\ UNCHANGED <<strokeVars, smoothVars, physicsVars, sceneVars>>

ShapeNext ==
    /\ GetContactShapeCall
    /\ UNCHANGED <<strokeVars, smoothVars, physicsVars, sceneVars>>

-----------------------------------------------------------------------------
(* ArtPhysicsEngine (Timeline.tsx) driven by ArtStudio (ArtStudio.tsx) *)
(* Pressure, angle, mass, elasticity and damping are in thousandths.      *)

\* most engine / studio operations in a run
MaxPhysicsOps == 4

\* Math.pow(x, 0.4) for x in [0, 1], in thousandths: tabulated and
\* interpolated in between
CurveKnots == << <<0, 0>>, <<1, 63>>, <<10, 158>>, <<50, 302>>, <<100, 398>>,
                 <<250, 574>>, <<500, 758>>, <<750, 891>>, <<1000, 1000>> >>

\* the sensitivity argument, in tenths: 0.5, 1 and the default 2.5
Sensitivities == { 5, 10, 25 }

DefaultSensitivity == 25

\* Math.pow(rawPressure, 1 / sensitivity) for rawPressure in [0, 1]
Curve(rawPressure, sensitivity) ==
    CASE sensitivity = 5  -> (rawPressure * rawPressure) \div 1000
      [] sensitivity = 10 -> rawPressure
      [] OTHER ->
           IF rawPressure >= 1000 THEN 1000
           ELSE LET k  == CHOOSE j \in 1..(Len(CurveKnots) - 1) :
                             /\ CurveKnots[j][1] <= rawPressure
                             /\ rawPressure < CurveKnots[j + 1][1]
                    x0 == CurveKnots[k][1]
                    y0 == CurveKnots[k][2]
                    x1 == CurveKnots[k + 1][1]
                    y1 == CurveKnots[k + 1][2]
                IN  y0 + ((rawPressure - x0) * (y1 - y0)) \div (x1 - x0)

\* the values Math.random() returns, in thousandths
RandomValues == { 0, 999 }

\* as calculatePressureResponse, but without the lower clamp
calculatePressureResponseNoFloor(rawPressure, sensitivity, random) ==
    Min(1000, Curve(rawPressure, sensitivity) + TruncDiv((random - 500) * 20, 1000))

\* calculatePressureResponse, given the value Math.random() returns
calculatePressureResponse(rawPressure, sensitivity, random) ==
    LET organic == Curve(rawPressure, sensitivity) + TruncDiv((random - 500) * 20, 1000)
    IN  Max(10, Min(1000, organic))

ToolKinds == { "pencil", "brush", "pen" }

\* the constants handleToolChange passes to updateState
ToolConstants(tool) ==
    CASE tool = "pencil" -> [ mass |-> 50, elasticity |-> 1200, damping |-> 850 ]
      [] tool = "brush"  -> [ mass |-> 80, elasticity |-> 800,  damping |-> 700 ]
      [] tool = "pen"    -> [ mass |-> 30, elasticity |-> 1500, damping |-> 900 ]

\* as Merged, but the fields newState does not name go back to the
\* constructor's values
MergedOverDefaults(old, newState) ==
    [ f \in DOMAIN old |->
        IF f \in DOMAIN newState THEN newState[f]
        ELSE CASE f \in { "position", "velocity", "acceleration" } -> << 0, 0, 0 >>
               [] f = "pressure" -> 500
               [] f = "angle" -> 0
               [] f = "elasticity" -> 1200
               [] f = "damping" -> 850
               [] OTHER -> 1000 ]

\* { ...this.state, ...newState }
Merged(old, newState) ==
    [ f \in DOMAIN old |-> IF f \in DOMAIN newState THEN newState[f] ELSE old[f] ]

PhysicsInit ==
    /\ state = [ position |-> << 0, 0, 0 >>, velocity |-> << 0, 0, 0 >>,
                 acceleration |-> << 0, 0, 0 >>, pressure |-> 500, angle |-> 0,
                 elasticity |-> 1200, damping |-> 850, mass |-> 1000 ]
    /\ studio = [ activeTool |-> "pencil", pressure |-> 500, angle |-> 0,
                  isPlaying |-> TRUE ]
    /\ studioNext = studio
    /\ response = Null
    /\ physicsOps = 0
    /\ lastTool = Null

PhysicsOp == physicsOps < MaxPhysicsOps /\ physicsOps' = physicsOps + 1

\* ArtPhysicsEngine.updateState
updateState(newState) == state' = Merged(state, newState)

\* the setInterval callback of the physics simulation loop, which exists
\* while isPlaying; it reads pressure and angle of the render that started it
PhysicsTick ==
    /\ studio.isPlaying
    /\ PhysicsOp
    /\ \E random \in RandomValues :
           /\ response' = << calculatePressureResponse(studio.pressure,
                                                       DefaultSensitivity, random) >>
           /\ updateState([ pressure |-> response'[1], angle |-> studio.angle ])
    /\ UNCHANGED << studio, studioNext, lastTool >>

\* handleWheelPressure, on a wheel event with deltaY > 0 (down) or not
handleWheelPressure(down) ==
    /\ PhysicsOp
    /\ \E random \in RandomValues :
           LET delta       == IF down THEN -50 ELSE 50
               newPressure == Max(100, Min(1000, studio.pressure + delta))
           IN  /\ response' = << calculatePressureResponse(newPressure, DefaultSensitivity, random) >>
               /\ studioNext' = [ studioNext EXCEPT !.pressure = response'[1] ]
    /\ UNCHANGED << state, studio, lastTool >>

\* the pressure and angle sliders of the tool panel: setPressure, setAngle
SliderPressures == { 100, 1000 }

SliderAngles == { -1570, 1570 }

SetPressure ==
    /\ PhysicsOp
    /\ \E v \in SliderPressures : studioNext' = [ studioNext EXCEPT !.pressure = v ]
    /\ UNCHANGED << state, studio, response, lastTool >>

SetAngle ==
    /\ PhysicsOp
    /\ \E v \in SliderAngles : studioNext' = [ studioNext EXCEPT !.angle = v ]
    /\ UNCHANGED << state, studio, response, lastTool >>

\* the play / pause button: setIsPlaying(!isPlaying)
TogglePlaying ==
    /\ PhysicsOp
    /\ studioNext' = [ studioNext EXCEPT !.isPlaying = ~studio.isPlaying ]
    /\ UNCHANGED << state, studio, response, lastTool >>

handleToolChange(tool) ==
    /\ PhysicsOp
    /\ studioNext' = [ studioNext EXCEPT !.activeTool = tool ]
    /\ updateState(ToolConstants(tool))
    /\ lastTool' = << tool >>
    /\ UNCHANGED << studio, response >>

\* ArtStudio re-renders with the queued state
StudioRender ==
    /\ studioNext # studio
    /\ studio' = studioNext
    /\ UNCHANGED << state, studioNext, response, physicsOps, lastTool >>

\* the rawPressure argument
RawPressures == { 0, 300, 1000 }

\* calculatePressureResponse called directly, as the hook exports it
PressureResponseCall ==
    /\ PhysicsOp
    /\ \E rawPressure \in RawPressures, sensitivity \in Sensitivities,
          random \in RandomValues :
           response' = << calculatePressureResponse(rawPressure, sensitivity, random) >>
    /\ UNCHANGED << state, studio, studioNext, lastTool >>

PhysicsNext ==
    /\ \/ PhysicsTick
       \/ \E down \in BOOLEAN : handleWheelPressure(down)
       \/ SetPressure
       \/ SetAngle
       \/ TogglePlaying
       \/ \E tool \in ToolKinds : handleToolChange(tool)
       \/ StudioRender
       \/ PressureResponseCall
    /\ UNCHANGED <<strokeVars, smoothVars, tipVars, sceneVars>>

-----------------------------------------------------------------------------
(* ArtPhysicsEngine.calculateToolAngle (Timeline.tsx) and a caller that      *)
(* feeds it each pointer position with the previous position and the angle  *)
(* returned before.  Pointer coordinates are in units of 1e-4, angles in    *)
(* thousandths of a radian.                                                 *)

MaxAngleCalls == 3

\* where the pointer can be
PointerPlaces == { << 0, 0 >>, << 9, 0 >>, << 9, 9 >>, << 30, 0 >>, << 0, 30 >> }

\* x * 0.15
Blend(x) == TruncDiv(x * 15, 100)

calculateToolAngle(mousePosition, lastPosition, currentAngle, lockAngle) ==
    IF lockAngle THEN currentAngle
    ELSE LET deltaX == mousePosition[1] - lastPosition[1]
             deltaY == mousePosition[2] - lastPosition[2]
         IN  IF Abs(deltaX) < 10 /\ Abs(deltaY) < 10 THEN currentAngle
             ELSE LET targetAngle     == Atan2(deltaY, deltaX)
                      angleDifference == targetAngle - currentAngle
                  IN  currentAngle + Blend(angleDifference)

AngleInit ==
    tracked = [ angle |-> 0, lastPosition |-> << 0, 0 >>, calls |-> 0,
                currentAngle |-> 0, mousePosition |-> << 0, 0 >>,
                from |-> << 0, 0 >>, lockAngle |-> FALSE ]

\* one pointer event: the angle is tracked from the previous position to the new
ToolAngleCall ==
    /\ tracked.calls < MaxAngleCalls
    /\ \E mousePosition \in PointerPlaces, lockAngle \in BOOLEAN :
          tracked' = [ angle         |-> calculateToolAngle(mousePosition,
                                             tracked.lastPosition, tracked.angle, lockAngle),
                       lastPosition  |-> mousePosition,
                       calls         |-> tracked.calls + 1,
                       currentAngle  |-> tracked.angle,
                       mousePosition |-> mousePosition,
                       from          |-> tracked.lastPosition,
                       lockAngle     |-> lockAngle ]
    /\ UNCHANGED << scene, sceneFrame >>

AngleNext ==
    /\ ToolAngleCall
    /\ UNCHANGED <<strokeVars, smoothVars, tipVars, physicsVars>>

-----------------------------------------------------------------------------
(* Scene (ArtCanvas3D.tsx): the free tool under gravity over the surface.    *)
(* Positions and velocities are in units of 1e-6, the contact force too;     *)
(* angles in thousandths of a radian, factors in thousandths, times in ms.   *)
(* A useFrame callback and a pointer handler see the state their predecessor *)
(* set: React has re-rendered the Scene in between.  grabPoint, grabOffset   *)
(* and drawingPoints are written by the handlers and read by the rendering   *)
(* only; they are not part of this model.                                    *)

MaxSceneFrames == 20

MaxSceneOps == 3

\* the delta of a frame: 0.5 s
FrameDelta == 500

GRAVITY == 0 - 8000

SURFACE_Y == 0 - 1000000

TOOL_LENGTH == 1050000

ELASTIC_DAMPING == 850

FRICTION == 950

AZIMUTH_SMOOTHING == 150

\* air resistance, 0.98
AIR == 980

\* the angle prop: 0 and 0.5 rad
SceneAngles == { 0, 500 }

SceneModes == { "tool", "camera" }

\* where the pointer's ray meets the surface plane: (x, z)
PointerTargets == { << 0, 0 >>, << 20000, 0 >> }

\* Math.cos and Math.sin of the angles a rotation can hold
SceneCos(a) == IF a = 0 THEN 1000 ELSE 878

SceneSin(a) == IF a = 0 THEN 0 ELSE IF a > 0 THEN 479 ELSE -479

\* v * k, k in thousandths
Scaled(v, k) == TruncDiv(v * k, 1000)

calculateTipPosition(toolPos, toolRot) ==
    LET angleX     == toolRot[1]
        angleZ     == toolRot[3]
        tipOffsetY == -Scaled(Scaled(TOOL_LENGTH, SceneCos(angleX)), SceneCos(angleZ))
        tipOffsetX == Scaled(TOOL_LENGTH, SceneSin(angleZ))
        tipOffsetZ == -Scaled(Scaled(TOOL_LENGTH, SceneSin(angleX)), SceneCos(angleZ))
    IN  << toolPos[1] + tipOffsetX, toolPos[2] + tipOffsetY, toolPos[3] + tipOffsetZ >>

SceneInit ==
    /\ scene = [ mode |-> "tool", angle |-> 0,
                 toolPosition |-> << 0, 500000, 0 >>,
                 toolRotation |-> << 0, 0, 0 >>,
                 toolVelocity |-> << 0, 0, 0 >>,
                 isDragging |-> FALSE,
                 surfaceContactForce |-> 0,
                 planeDragOffset |-> << 0, 0 >>,
                 movementDirection |-> << 0, 0 >>,
                 targetAzimuth |-> 0,
                 lastToolPosition |-> << 0, 500000, 0 >>,
                 lastMoveTime |-> 0,
                 elapsedTime |-> 0,
                 ops |-> 0 ]
    /\ sceneFrame = Null

\* "Track movement for elastic azimuth": the direction, target azimuth and
\* lastMoveTime a dragging frame leaves
TrackedMovement(s, newPosition, elapsedTime) ==
    LET same == [ movementDirection |-> s.movementDirection,
                  targetAzimuth |-> s.targetAzimuth, lastMoveTime |-> s.lastMoveTime ]
    IN  IF s.isDragging /\ s.lastMoveTime # 0
        THEN LET deltaTime == elapsedTime - s.lastMoveTime
             IN  IF deltaTime > 16
                 THEN LET deltaX    == newPosition[1] - s.lastToolPosition[1]
                          deltaZ    == newPosition[3] - s.lastToolPosition[3]
                          magnitude == 100 * Sqrt(TruncDiv(deltaX, 100) * TruncDiv(deltaX, 100)
                                                  + TruncDiv(deltaZ, 100) * TruncDiv(deltaZ, 100))
                      IN  IF magnitude > 10 * deltaTime /\ magnitude > 0
                          THEN [ movementDirection |->
                                     << TruncDiv(deltaX * 1000, magnitude),
                                        TruncDiv(deltaZ * 1000, magnitude) >>,
                                 targetAzimuth |-> Atan2(deltaX, deltaZ),
                                 lastMoveTime |-> elapsedTime ]
                          ELSE [ same EXCEPT !.lastMoveTime = elapsedTime ]
                 ELSE same
        ELSE same

\* "Handle angle wrapping": one fold down, then one fold up
WrapAzimuth(deltaAzimuth) ==
    LET folded == IF deltaAzimuth > 3142 THEN deltaAzimuth - 6283 ELSE deltaAzimuth
    IN  IF folded < -3142 THEN folded + 6283 ELSE folded

\* "Elastic azimuth": the yaw a frame leaves
ElasticAzimuth(s, currentAzimuth) ==
    IF s.isDragging /\ Abs(s.targetAzimuth) > 10
    THEN currentAzimuth
           + Scaled(WrapAzimuth(s.targetAzimuth - currentAzimuth), AZIMUTH_SMOOTHING)
    ELSE currentAzimuth

\* as Bounce, but the vertical velocity is inverted whichever way it points
BounceAlways(vy) == Scaled(-vy, ELASTIC_DAMPING)

\* "Elastic bounce only if moving downward"
Bounce(vy) == IF vy < 0 THEN Scaled(-vy, ELASTIC_DAMPING) ELSE vy

\* (Math.random() - 0.5) * 0.01 * collisionForce
Chatter(random, collisionForce) ==
    TruncDiv((random - 500) * TruncDiv(collisionForce, 100), 1000)

\* the velocity after gravity and the position after integration
Fallen(s) == << s.toolVelocity[1], s.toolVelocity[2] + GRAVITY, s.toolVelocity[3] >>

Integrated(s, delta) ==
    [ i \in 1..3 |-> s.toolPosition[i] + Scaled(Fallen(s)[i], delta) ]

\* the frame draws its two random numbers: the tip is in the surface, the tool
\* was falling and the collision force is above 0.5
Chatters(s, newRotation, delta) ==
    /\ calculateTipPosition(Integrated(s, delta), newRotation)[2] <= SURFACE_Y
    /\ Fallen(s)[2] < 0
    /\ Abs(Bounce(Fallen(s)[2])) * 10 > 500000

\* the free flight of one frame: gravity, integration, collision with the
\* surface, air resistance; returns the position, velocity and contact force
FreeFlight(s, newRotation, delta, random1, random2) ==
    LET fallen     == Fallen(s)
        integrated == Integrated(s, delta)
        newTipPosition == calculateTipPosition(integrated, newRotation)
        collides    == newTipPosition[2] <= SURFACE_Y
        penetration == SURFACE_Y - newTipPosition[2]
        bounced     == Bounce(fallen[2])
        collisionForce == Abs(bounced) * 10
        chatters    == Chatters(s, newRotation, delta)
        newPosition == IF collides
                       THEN << integrated[1]
                                 + (IF chatters THEN Chatter(random1, collisionForce) ELSE 0),
                               integrated[2] + penetration,
                               integrated[3]
                                 + (IF chatters THEN Chatter(random2, collisionForce) ELSE 0) >>
                       ELSE integrated
        newVelocity == IF collides
                       THEN << Scaled(fallen[1], FRICTION), bounced,
                               Scaled(fallen[3], FRICTION) >>
                       ELSE fallen
    IN  [ toolPosition |-> newPosition,
          toolVelocity |-> << Scaled(newVelocity[1], AIR), Scaled(newVelocity[2], AIR),
                              Scaled(newVelocity[3], AIR) >>,
          surfaceContactForce |-> IF collides /\ fallen[2] < 0 THEN collisionForce
                                  ELSE s.surfaceContactForce ]

\* the useFrame callback
SceneFrame ==
    /\ scene.elapsedTime < MaxSceneFrames * FrameDelta
    /\ \E random1 \in RandomValues, random2 \in RandomValues :
          LET elapsedTime == scene.elapsedTime + FrameDelta
              newRotation == << scene.toolRotation[1],
                                ElasticAzimuth(scene, scene.toolRotation[2]),
                                scene.angle >>
              draws       == scene.mode = "tool" /\ ~scene.isDragging
                                /\ Chatters(scene, newRotation, FrameDelta)
              track       == TrackedMovement(scene, scene.toolPosition, elapsedTime)
              flight      == FreeFlight(scene, newRotation, FrameDelta, random1, random2)
              moved       == IF scene.isDragging
                             THEN [ toolPosition |-> scene.toolPosition,
                                    toolVelocity |-> scene.toolVelocity,
                                    surfaceContactForce |-> scene.surfaceContactForce ]
                             ELSE flight
          IN  /\ scene' =
                    IF scene.mode # "tool"
                    THEN [ scene EXCEPT !.elapsedTime = elapsedTime ]
                    ELSE [ scene EXCEPT
                             !.elapsedTime = elapsedTime,
                             !.movementDirection = track.movementDirection,
                             !.targetAzimuth = track.targetAzimuth,
                             !.lastMoveTime = track.lastMoveTime,
                             !.toolRotation = newRotation,
                             !.toolPosition = moved.toolPosition,
                             !.toolVelocity = moved.toolVelocity,
                             !.lastToolPosition = moved.toolPosition,
                             !.surfaceContactForce = Scaled(moved.surfaceContactForce, 900) ]
              /\ draws \/ (random1 = 0 /\ random2 = 0)
              /\ sceneFrame' = << [ before |-> scene, random1 |-> random1,
                                    random2 |-> random2 ] >>
    /\ UNCHANGED tracked

\* a prop, a pointer event: one more of the bounded number of them
SceneOp == scene.ops < MaxSceneOps

SetSceneAngle ==
    /\ SceneOp
    /\ \E angle \in SceneAngles \ { scene.angle } :
          scene' = [ scene EXCEPT !.angle = angle, !.ops = @ + 1 ]
    /\ sceneFrame' = Null
    /\ UNCHANGED tracked

SetSceneMode ==
    /\ SceneOp
    /\ \E mode \in SceneModes \ { scene.mode } :
          scene' = [ scene EXCEPT !.mode = mode, !.ops = @ + 1 ]
    /\ sceneFrame' = Null
    /\ UNCHANGED tracked

handlePointerDown ==
    /\ SceneOp
    /\ \E target \in PointerTargets :
          scene' = IF scene.mode # "tool" THEN scene
                   ELSE [ scene EXCEPT
                            !.planeDragOffset = << target[1] - scene.toolPosition[1],
                                                   target[2] - scene.toolPosition[3] >>,
                            !.isDragging = TRUE,
                            !.lastMoveTime = 0,
                            !.ops = @ + 1 ]
    /\ sceneFrame' = Null
    /\ UNCHANGED tracked

handlePointerMove ==
    /\ SceneOp
    /\ \E target \in PointerTargets :
          scene' =
             IF ~scene.isDragging \/ scene.mode # "tool" THEN scene
             ELSE LET desiredX == target[1] - scene.planeDragOffset[1]
                      desiredZ == target[2] - scene.planeDragOffset[2]
                      currentTipPosition ==
                          calculateTipPosition(scene.toolPosition, scene.toolRotation)
                      desiredTipPosition == << desiredX, SURFACE_Y, desiredZ >>
                      newToolPosition ==
                          [ i \in 1..3 |-> scene.toolPosition[i]
                                             + (desiredTipPosition[i] - currentTipPosition[i]) ]
                  IN  [ scene EXCEPT !.toolPosition = newToolPosition,
                                     !.toolVelocity = << 0, 0, 0 >>,
                                     !.ops = @ + 1 ]
    /\ sceneFrame' = Null
    /\ UNCHANGED tracked

handlePointerUp ==
    /\ SceneOp
    /\ scene' = [ scene EXCEPT !.isDragging = FALSE, !.ops = @ + 1 ]
    /\ sceneFrame' = Null
    /\ UNCHANGED tracked

SceneNext ==
    /\ \/ SceneFrame
       \/ SetSceneAngle
       \/ SetSceneMode
       \/ handlePointerDown
       \/ handlePointerMove
       \/ handlePointerUp
    /\ UNCHANGED <<strokeVars, smoothVars, tipVars, physicsVars>>

-----------------------------------------------------------------------------
Init == StrokeInit /\ SmoothInit /\ TipInit /\ PhysicsInit /\ AngleInit /\ SceneInit

SpecStroke == Init /\ [][StrokeNext]_vars

SpecStyle == Init /\ [][StyleNext]_vars

SpecSmooth == Init /\ [][SmoothNext]_vars

SpecTip == Init /\ [][TipNext]_vars

SpecPhysics == Init /\ [][PhysicsNext]_vars

SpecFrame == Init /\ [][FrameNext]_vars

SpecShape == Init /\ [][ShapeNext]_vars

SpecAngle == Init /\ [][AngleNext]_vars

SpecScene == Init /\ [][SceneNext]_vars

-----------------------------------------------------------------------------
(* Properties of useDrawingStrokeSystem *)

\* one callback of the hook has just been invoked
CallStep(name) == calls' = calls + 1 /\ lastCall' = name

IsPrefix(s, t) == Len(s) <= Len(t) /\ SubSeq(t, 1, Len(s)) = s

\* C3: startStroke(p) followed by endStroke(), with no accepted addPoint in
\* between, leaves the committed stroke collection exactly as it was before
\* startStroke.
C3_StrokeDiscardRule ==
    trail = "startEnd" => Committed = strokesAtStart

\* C4: endStroke appends the in-progress stroke to the committed collection
\* if and only if that stroke holds at least 2 points, and in every case no
\* stroke is in progress after endStroke returns.
C4_EndStrokeCommitsIffTwoPoints ==
    [][ CallStep("endStroke") =>
          /\ Committed' = IF InProgress # Null /\ Len(InProgress[1].points) >= 2
                          THEN Append(Committed, InProgress[1])
                          ELSE Committed
          /\ InProgress' = Null ]_vars

\* C5: while a stroke is in progress, an addPoint call whose candidate point
\* is at distance <= 0.003 from the last recorded point changes neither the
\* stroke's point sequence nor its width nor its opacity (nor anything else
\* of the stroke), so the point count does not grow.
C5_MinimumSpacing ==
    [][ ( /\ CallStep("addPointToStroke")
          /\ InProgress # Null
          /\ DistSq(lastArg', InProgress[1].points[Len(InProgress[1].points)])
                <= MinSpacing * MinSpacing )
        => InProgress' = InProgress ]_vars

\* C5 witness: addPointToStroke ran over a live stroke (its closure saw it)
\* with a candidate that is not the last recorded point but within the
\* minimum spacing of it, here at exactly that spacing.
C5_Witness ==
    /\ lastCall = "addPointToStroke"
    /\ currentStroke # Null
    /\ InProgress # Null
    /\ lastArg # Null
    /\ DistSq(lastArg, InProgress[1].points[Len(InProgress[1].points)])
          = MinSpacing * MinSpacing

\* C6: clearStrokes, called in any state, leaves the committed collection
\* empty, no in-progress stroke and no remembered last point; an addPoint
\* that follows it without a new startStroke records nothing.
C6_ClearStrokesResets ==
    [][ /\ CallStep("clearStrokes") =>
            Committed' = <<>> /\ InProgress' = Null /\ lastPoint' = Null
        /\ (lastCall = "clearStrokes" /\ CallStep("addPointToStroke")) =>
            Committed' = <<>> /\ InProgress' = Null ]_vars

\* C6 witness: clearStrokes ran while a committed stroke and an in-progress
\* stroke both existed.
C6_Witness ==
    /\ lastCall = "clearStrokes"
    /\ strokes # <<>>
    /\ currentStroke # Null
    /\ Committed = <<>>
    /\ InProgress = Null

\* C7: the committed collection is append-only except for clearStrokes:
\* no other step removes, reorders or modifies a committed stroke, and only
\* endStroke adds one, at the end.
C7_CommittedAppendOnly ==
    [][ ~CallStep("clearStrokes") =>
          /\ IsPrefix(Committed, Committed')
          /\ Len(Committed') <= Len(Committed) + 1
          /\ Committed' # Committed => CallStep("endStroke") ]_vars

\* C7 witness: with a stroke committed, a second stroke was started and took
\* a point, and the committed stroke is still there.
C7_Witness ==
    /\ lastCall = "addPointToStroke"
    /\ Committed # <<>>
    /\ InProgress # Null
    /\ Len(InProgress[1].points) >= 2
    /\ InProgress[1].id # Committed[1].id

-----------------------------------------------------------------------------
(* Properties of CoordinateSmoothingEngine *)

\* the last n entries of a sequence
LastN(q, n) == SubSeq(q, Len(q) - n + 1, Len(q))

AllSame(h) == \A i \in 1..Len(h) : h[i] = h[1]

\* C8: the history never holds more than 10 entries, and it is always the
\* most recent min(n, 10) raw samples in arrival order, n being the number
\* of samples filtered since construction or clear(): the 11th sample
\* evicts the oldest.
C8_HistoryBoundedFifo ==
    /\ Len(history) <= maxHistoryLength
    /\ history = LastN(fed, Min(Len(fed), maxHistoryLength))

\* C8 witness: an 11th sample has arrived, the evicted first sample differs
\* from the second, and the history starts at the second.
C8_Witness ==
    /\ Len(fed) = maxHistoryLength + 1
    /\ fed[1] # fed[2]
    /\ Len(history) = maxHistoryLength
    /\ history[1] = fed[2]
    /\ history[maxHistoryLength] = fed[maxHistoryLength + 1]

\* C9: the first and the second filter call after construction or clear()
\* return exactly the raw sample they were given.
C9_FirstTwoUnfiltered ==
    Len(fed) \in {1, 2} => smoothed = << fed[Len(fed)] >>

\* C9 witness: the second call returned its raw sample although the first
\* sample was a different one.
C9_Witness ==
    /\ Len(fed) = 2
    /\ fed[1] # fed[2]
    /\ smoothed = << fed[2] >>

\* C10 as stated: whenever the history holds only copies of one sample
\* (in particular when the same sample was fed on every call from an empty
\* history), the output's coordinate, pressure and friction equal that
\* sample's exactly.
C10_ConstantSampleExact ==
    (history # <<>> /\ AllSame(history)) =>
        /\ smoothed[1].position = history[1].position
        /\ smoothed[1].pressure = history[1].pressure
        /\ smoothed[1].friction = history[1].friction

\* a equals b up to the round-off of the weighted sum and the division:
\* a relative error of at most 4 * 2^-MantBits
Close(a, b) == Abs(a - b) * 2^(MantBits - 2) <= Abs(b)

\* C10 amended: whenever the history holds only copies of one sample, the
\* output's coordinate, pressure and friction equal that sample's up to
\* floating-point round-off (relative error at most 4 * 2^-MantBits), and
\* exactly while the history holds fewer than 3 entries.
C10_ConstantSampleClose ==
    (history # <<>> /\ AllSame(history)) =>
        /\ Close(smoothed[1].position[1], history[1].position[1])
        /\ Close(smoothed[1].position[2], history[1].position[2])
        /\ Close(smoothed[1].pressure, history[1].pressure)
        /\ Close(smoothed[1].friction, history[1].friction)
        /\ Len(history) < 3 => smoothed[1] = history[1]

\* C10 witness: the history is full of copies of one sample, a different
\* earlier sample having been evicted, and the output differs from the
\* sample by round-off.
C10_Witness ==
    /\ Len(fed) = maxHistoryLength + 1
    /\ fed[1] # fed[2]
    /\ Len(history) = maxHistoryLength
    /\ AllSame(history)
    /\ smoothed[1].position # history[1].position

\* C11: after every filter call the returned SmoothPoint's surfaceHeight is
\* the surfaceHeight of the raw sample passed to that call, whatever the
\* history holds.
C11_SurfaceHeightNotSmoothed ==
    fed # <<>> => smoothed[1].surfaceHeight = fed[Len(fed)].surfaceHeight

\* a weighted-average output whose history holds an earlier sample of another
\* surface height
C11_Witness ==
    /\ Len(history) >= 3
    /\ history[1].surfaceHeight # history[Len(history)].surfaceHeight
    /\ smoothed[1].surfaceHeight = history[Len(history)].surfaceHeight
    /\ smoothed[1] # history[Len(history)]

\* C20: every SmoothPoint convertTo2D has returned has its friction in
\* [0.3, 1.0], the unfiltered output and the weighted average alike.
C20_FrictionInRange ==
    smoothed # Null =>
        /\ smoothed[1].friction >= Lit(3, 10)
        /\ smoothed[1].friction <= One

\* a weighted-average output over samples of different friction, one of them
\* clamped to 1.0
C20_Witness ==
    /\ Len(history) >= 3
    /\ \E i \in 1..Len(history) : history[i].friction = One
    /\ \E i \in 1..Len(history) : history[i].friction < One
    /\ smoothed[1].friction < One
    /\ smoothed[1].friction > Lit(3, 10)

-----------------------------------------------------------------------------
(* Claims about the tip mesh, checked under SpecTip *)

\* C1: wear monotonicity. Every step of the tip meshes leaves every vertex's
\* wear greater than or equal to what it was before the step: no applyWear
\* call, whatever its contacts and wear rate, lowers a vertex's wear.
C1_WearMonotonic ==
    [][ \A kind \in TipKinds :
          /\ Len(vertices'[kind]) = Len(vertices[kind])
          /\ \A i \in 1..Len(vertices[kind]) :
                 vertices'[kind][i].wear >= vertices[kind][i].wear ]_vars

\* a vertex that was already partly worn before the last applyWear call and
\* was worn further by it
C1_Witness ==
    /\ wearCalls >= 2
    /\ \E kind \in TipKinds : \E i \in 1..Len(vertices[kind]) :
           /\ 0 < wearBefore[kind][i]
           /\ wearBefore[kind][i] < vertices[kind][i].wear
           /\ vertices[kind][i].wear < Micro

\* C2: in every reachable state of the tip meshes every vertex's wear lies in
\* [0, 1].
C2_WearInUnitInterval ==
    \A kind \in TipKinds : \A i \in 1..Len(vertices[kind]) :
        vertices[kind][i].wear >= 0 /\ vertices[kind][i].wear <= Micro

\* a partly worn vertex whose accumulation in the last call would have
\* passed 1 and was clamped to exactly 1
C2_Witness ==
    \E kind \in TipKinds : \E i \in 1..Len(vertices[kind]) :
        /\ 0 < wearBefore[kind][i]
        /\ wearBefore[kind][i] < Micro
        /\ vertices[kind][i].wear = Micro

\* C16: idempotent mesh rebuild. In every state the stored geometry is what
\* updateGeometry builds from the vertices now, so a rebuild with no
\* intervening applyWear yields identical positions and indices; and no step
\* (a rebuild, or applyWear with the rebuild it ends with) changes the number
\* or order of the vertices or their rest position and hardness, a rebuild on
\* its own leaving their wear and position alone as well.
C16_RebuildIdempotent ==
    [][ \A kind \in TipKinds :
          /\ geometry'[kind] = updateGeometry(vertices'[kind])
          /\ Len(vertices'[kind]) = Len(vertices[kind])
          /\ \A i \in 1..Len(vertices[kind]) :
                 /\ vertices'[kind][i].originalPosition = vertices[kind][i].originalPosition
                 /\ vertices'[kind][i].hardness = vertices[kind][i].hardness
          /\ wearCalls' = wearCalls => vertices'[kind] = vertices[kind] ]_vars

\* a worn mesh, some vertex moved off its rest position, whose geometry is
\* the rebuild of its vertices
C16_Witness ==
    \E kind \in TipKinds :
        /\ geometry[kind] = updateGeometry(vertices[kind])
        /\ geometry[kind].positions # updateGeometry(generateInitialGeometry(kind)).positions
        /\ \E i \in 1..Len(vertices[kind]) :
               vertices[kind][i].wear > 0
               /\ vertices[kind][i].position # vertices[kind][i].originalPosition

\* the vertices of ring number ring (0 the base circle) are at these places
\* of the vertex array
RingPlaces(ring) == (2 + ring * segments)..(1 + (ring + 1) * segments)

\* C17: the mesh has exactly 1 + segments * (rings + 1) vertices, rings = 3,
\* in the order apex, base ring, intermediate rings, in every state; right
\* after generation every vertex has wear 0 and sits at its rest position.
C17_MeshGeneration ==
    \A kind \in TipKinds :
        LET verts == vertices[kind]
            apexY == IF kind = "lead" THEN 0 ELSE -height
            baseY == IF kind = "lead" THEN height ELSE 0
        IN  /\ rings = 3
            /\ Len(verts) = 1 + segments * (rings + 1)
            /\ verts[1].originalPosition = << 0, apexY, 0 >>
            /\ \A k \in RingPlaces(0) : verts[k].originalPosition[2] = baseY
            /\ \A ring \in 1..rings : \A k \in RingPlaces(ring) :
                   /\ verts[k].originalPosition[2] # baseY
                   /\ Abs(verts[k].originalPosition[2]) = (height * ring) \div (rings + 1)
            /\ wearCalls = 0 =>
                   \A k \in 1..Len(verts) :
                       verts[k].wear = 0 /\ verts[k].position = verts[k].originalPosition

\* a mesh worn by the most calls a run makes, the apex among the worn
\* vertices
C17_Witness ==
    /\ wearCalls = MaxWearCalls
    /\ \E kind \in TipKinds :
           /\ vertices[kind][1].wear > 0
           /\ Len(vertices[kind]) = 1 + segments * (rings + 1)

-----------------------------------------------------------------------------
(* Claims about the physics engine and the studio, checked under SpecPhysics *)

\* C12: pressure bounds. Whatever calculatePressureResponse has returned, for
\* a raw pressure in [0, 1], a sensitivity > 0 and any jitter draw, lies in
\* [0.01, 1.0], and so does the pressure held in PhysicsState.
C12_PressureBounds ==
    /\ response # Null => (response[1] >= 10 /\ response[1] <= 1000)
    /\ state.pressure >= 10
    /\ state.pressure <= 1000

\* the physics loop has written a pressure clamped from above into
\* PhysicsState, and a later call was clamped from below
C12_Witness ==
    /\ state.pressure = 1000
    /\ studio.pressure = 1000
    /\ response = << 10 >>

-----------------------------------------------------------------------------
(* Claims about the frame callbacks, checked under SpecFrame *)

\* the vertices (by place) whose world Y is at or below surfaceY + 0.001
Qualifying(verts, surfaceY, t) ==
    { k \in 1..Len(verts) : verts[k].position[2] + t[2] <= surfaceY + 1000 }

\* the i-th smallest member of a set of numbers
Nth(S, i) == CHOOSE k \in S : Cardinality({ j \in S : j <= k }) = i

\* C13: the contacts a frame detected are exactly one for each vertex whose
\* world Y is at or below surfaceY + 0.001, in vertex order, none for any
\* other vertex; each lies under its vertex on the surface and has pressure
\* max(0, (surfaceY - worldY) * 100), which is never negative.
C13_CollisionContacts ==
    (frame # Null /\ frame[1].detectedOn # Null) =>
        LET f     == frame[1]
            verts == f.detectedOn
            Q     == Qualifying(verts, f.surfaceY, f.worldMatrix)
        IN  /\ Len(f.contacts) = Cardinality(Q)
            /\ \A i \in 1..Len(f.contacts) :
                   LET world == applyMatrix4(verts[Nth(Q, i)].position, f.worldMatrix)
                       depth == f.surfaceY - world[2]
                   IN  /\ f.contacts[i].position = << world[1], f.surfaceY, world[3] >>
                       /\ f.contacts[i].pressure >= 0
                       /\ f.contacts[i].pressure =
                              IF depth > 0 THEN depth \div 10 ELSE 0

\* a frame whose only contact is a vertex inside the band above the surface,
\* with pressure 0, every other vertex being clear of it
C13_Witness ==
    /\ frame # Null
    /\ frame[1].detectedOn # Null
    /\ Len(frame[1].contacts) = 1
    /\ frame[1].contacts[1].pressure = 0
    /\ \E k \in 1..Len(frame[1].detectedOn) :
           frame[1].detectedOn[k].position[2] + frame[1].worldMatrix[2] > frame[1].surfaceY

\* C18: in every frame that got as far as collision detection, the contacts
\* are those detected on the mesh as the frame found it; wear, if any, ran on
\* exactly those contacts; the footprint handed to onContact classifies those
\* contacts; the wear summary handed to onWearUpdate describes the mesh after
\* the frame's wear; and a frame that did not wear left the mesh alone.
C18_FrameOrder ==
    (frame # Null /\ frame[1].detectedOn # Null) =>
        LET f == frame[1]
        IN  /\ f.contacts = checkCollisionWithSurface(f.detectedOn, f.surfaceY, f.worldMatrix)
            /\ f.wornWith # Null => f.wornWith = << f.contacts >>
            /\ f.wornWith = Null => vertices[f.kind] = f.detectedOn
            /\ f.onContact # Null =>
                   /\ f.onContact[1].contacts = f.contacts
                   /\ f.onContact[1].shape = getContactShape(f.contacts)
            /\ f.onWearUpdate # Null => f.onWearUpdate = << WearSummary(vertices[f.kind]) >>
            /\ f.contacts = <<>> =>
                   (f.wornWith = Null /\ f.onContact = Null /\ f.onWearUpdate = Null)

\* a drawing frame that wore the tip and then reported the worn mesh
C18_Witness ==
    /\ frame # Null
    /\ frame[1].wornWith # Null
    /\ frame[1].onContact # Null
    /\ frame[1].onWearUpdate # Null
    /\ frame[1].onWearUpdate[1].avgWear > 0
    /\ WearOf(frame[1].detectedOn) # WearOf(vertices[frame[1].kind])

-----------------------------------------------------------------------------
(* Claims about getContactShape, checked under SpecShape *)

\* C14: footprint degeneracy. The footprint of no contacts is centre =
\* origin, area = 0, shape = point, orientation = 0; the footprint of exactly
\* one contact is shape = point, orientation = 0, centre = the contact's
\* position, area = the contact's area.
C14_FootprintDegeneracy ==
    footprint # Null =>
        LET cs == footprint[1].contacts
            sh == footprint[1].shape
        IN  /\ Len(cs) = 0 =>
                   sh = [ center |-> << 0, 0, 0 >>, area |-> 0, shape |-> "point",
                          orientation |-> 0 ]
            /\ Len(cs) = 1 =>
                   sh = [ center |-> cs[1].position, area |-> cs[1].area,
                          shape |-> "point", orientation |-> 0 ]

\* the footprint of one contact away from the origin
C14_Witness ==
    /\ footprint # Null
    /\ Len(footprint[1].contacts) = 1
    /\ footprint[1].contacts[1].position # << 0, 0, 0 >>
    /\ footprint[1].shape.center = footprint[1].contacts[1].position

\* C15: division guard. The footprint of more than one contact, all sharing
\* one z (Szz = 0), coincident contacts included, is shape = line with
\* orientation 0.
C15_DivisionGuard ==
    footprint # Null =>
        LET cs == footprint[1].contacts
        IN  (Len(cs) > 1 /\ \A i \in 1..Len(cs) : cs[i].position[3] = cs[1].position[3]) =>
                /\ footprint[1].shape.shape = "line"
                /\ footprint[1].shape.orientation = 0

-----------------------------------------------------------------------------
(* Further claims about the tip mesh, checked under SpecTip *)

\* where a vertex of rest position orig and wear w is put, the surface normal
\* being (0, 1, 0) and rx, rz the two jitter draws
RestPlusOffset(kind, orig, w, rx, rz) ==
    IF kind = "lead"
    THEN << orig[1] + TruncDiv((rx - 500) * w, Micro),
            orig[2] - (w * 15) \div 1000 + (IF w > 300000 THEN (w - 300000) \div 50 ELSE 0),
            orig[3] + TruncDiv((rz - 500) * w, Micro) >>
    ELSE << orig[1] + (IF w > 100000 THEN TruncDiv((rx - 500) * 2 * w, Micro) ELSE 0),
            orig[2] + w \div 50,
            orig[3] + (IF w > 100000 THEN TruncDiv((rz - 500) * 2 * w, Micro) ELSE 0) >>

\* C21: no step changes a vertex's rest position or hardness, and whenever a
\* step changes a vertex's current position the new position is the rest
\* position plus an offset fixed by the vertex's new wear, the contact normal
\* and the jitter draws; the previous current position plays no part.
C21_PositionFromRest ==
    [][ \A kind \in TipKinds : \A i \in 1..Len(vertices[kind]) :
          LET old == vertices[kind][i]
              new == vertices'[kind][i]
          IN  /\ new.originalPosition = old.originalPosition
              /\ new.hardness = old.hardness
              /\ new.position # old.position =>
                     \E rx \in { 0, 999 }, rz \in { 0, 999 } :
                         new.position =
                             RestPlusOffset(kind, old.originalPosition, new.wear, rx, rz) ]_vars

\* a vertex already moved off its rest position that a later call wore
\* further and moved again
C21_Witness ==
    /\ wearCalls >= 2
    /\ \E kind \in TipKinds : \E i \in 1..Len(vertices[kind]) :
           /\ 0 < wearBefore[kind][i]
           /\ wearBefore[kind][i] < vertices[kind][i].wear
           /\ vertices[kind][i].position # vertices[kind][i].originalPosition
           /\ vertices[kind][i].position[2] # vertices[kind][i].originalPosition[2]

-----------------------------------------------------------------------------
(* Further claims about the frame callbacks, checked under SpecFrame *)

\* the contacts of the list strictly within 0.008 of world position w
ContactsInReach(w, contacts) ==
    { j \in 1..Len(contacts) :
        /\ \A c \in 1..3 : Abs(w[c] - contacts[j].position[c]) < 8000
        /\ DistSq(w, contacts[j].position) < 8000 * 8000 }

\* C26: a lead-tip frame changes the wear or position only of vertices whose
\* world position, as the frame found it, lies strictly within 0.008 of one
\* of the frame's contacts, and the influence of such a contact is in (0, 1];
\* every other vertex is as it was, and so is every vertex when no wear ran.
C26_WearOnlyInRadius ==
    (frame # Null /\ frame[1].kind = "lead" /\ frame[1].detectedOn # Null) =>
        LET f == frame[1]
        IN  \A i \in 1..Len(f.detectedOn) :
                LET world == applyMatrix4(f.detectedOn[i].position, f.worldMatrix)
                    reach == ContactsInReach(world, f.contacts)
                IN  /\ vertices.lead[i] # f.detectedOn[i] =>
                           (f.wornWith # Null /\ reach # {})
                    /\ \A j \in reach :
                           LET influence ==
                                   Influence(DistSq(world, f.contacts[j].position))
                           IN  influence > 0 /\ influence <= 1000

\* a lead-tip frame that wore some vertices and left others, out of reach of
\* its several contacts, as they were
C26_Witness ==
    /\ frame # Null
    /\ frame[1].kind = "lead"
    /\ frame[1].wornWith # Null
    /\ Len(frame[1].contacts) > 1
    /\ \E i \in 1..Len(vertices.lead) : vertices.lead[i].wear # frame[1].detectedOn[i].wear
    /\ \E i \in 1..Len(vertices.lead) :
           /\ vertices.lead[i] = frame[1].detectedOn[i]
           /\ ContactsInReach(applyMatrix4(frame[1].detectedOn[i].position,
                                           frame[1].worldMatrix),
                              frame[1].contacts) = {}

\* C29: a frame changes vertex wear, vertex positions and the geometry only
\* if isDrawing is true and collision detection returned at least one
\* contact; a frame with isDrawing false or with no contacts leaves the mesh
\* as it was; and the contact and wear-summary callbacks fire only in frames
\* with at least one contact.
C29_WearOnlyWhenDrawing ==
    [][ frames' = frames + 1 =>
          LET f == frame'[1]
          IN  /\ (vertices' # vertices \/ geometry' # geometry) =>
                     (f.isDrawing /\ f.contacts # <<>>)
              /\ (~f.isDrawing \/ f.contacts = <<>>) =>
                     (vertices' = vertices /\ geometry' = geometry /\ f.wornWith = Null)
              /\ (f.onContact # Null \/ f.onWearUpdate # Null) => f.contacts # <<>> ]_vars

\* a lead-tip frame with contacts and both callbacks, the tool not drawing,
\* on a mesh an earlier frame had worn
C29_Witness ==
    /\ frame # Null
    /\ frame[1].kind = "lead"
    /\ ~frame[1].isDrawing
    /\ frame[1].contacts # <<>>
    /\ frame[1].onContact # Null
    /\ frame[1].onWearUpdate # Null
    /\ frame[1].detectedOn = vertices.lead
    /\ \E i \in 1..Len(vertices.lead) : vertices.lead[i].wear > 0

-----------------------------------------------------------------------------
(* Determinism of wear, checked under SpecTip *)

\* C30: for the lead mesh as it is, and any pose and wear rate of the next
\* applyWear call on the contacts of that pose, every vertex's wear after the
\* call is the same whatever the lateral-jitter draws are.
C30_WearIndependentOfJitter ==
    \A surfaceY \in SurfaceLevels, level \in ApexLevels, wearRate \in WearRates :
        LET t        == ToolMatrix("lead", surfaceY, level)
            contacts == checkCollisionWithSurface(vertices.lead, surfaceY, t)
        IN  \A s1 \in RandomStreams, s2 \in RandomStreams :
                WearOf(WornVertices("lead", vertices.lead, contacts, t, wearRate, s1))
                    = WearOf(WornVertices("lead", vertices.lead, contacts, t, wearRate, s2))

-----------------------------------------------------------------------------
(* Further claims about getContactShape, checked under SpecShape *)

\* the second moments Sxx, Szz, Sxz of a contact list about its centroid
Moments(cs) ==
    LET n  == Len(cs)
        cx == TruncDiv(SumOver([ i \in 1..n |-> cs[i].position[1] ], n), n)
        cz == TruncDiv(SumOver([ i \in 1..n |-> cs[i].position[3] ], n), n)
        dx == [ i \in 1..n |-> TruncDiv(cs[i].position[1] - cx, shapeGrain) ]
        dz == [ i \in 1..n |-> TruncDiv(cs[i].position[3] - cz, shapeGrain) ]
    IN  [ xx |-> SumOver([ i \in 1..n |-> dx[i] * dx[i] ], n),
          zz |-> SumOver([ i \in 1..n |-> dz[i] * dz[i] ], n),
          xz |-> SumOver([ i \in 1..n |-> dx[i] * dz[i] ], n) ]

\* C22: for more than one contact with Sxx and Szz both positive and
\* ratio = sqrt(Sxx / Szz): the shape is line when ratio > 2 or ratio < 0.5,
\* otherwise oval when there are more than 3 contacts, otherwise point; the
\* orientation is 0.5 * atan2(Sxz, Sxx - Szz) when the shape is not point
\* and 0 when it is.
C22_ShapeClassification ==
    (footprint # Null /\ Len(footprint[1].contacts) > 1) =>
        LET cs == footprint[1].contacts
            sh == footprint[1].shape
            S  == Moments(cs)
        IN  (S.xx > 0 /\ S.zz > 0) =>
                /\ sh.shape = IF S.xx > 4 * S.zz \/ 4 * S.xx < S.zz THEN "line"
                              ELSE IF Len(cs) > 3 THEN "oval"
                              ELSE "point"
                /\ sh.orientation = IF sh.shape = "point" THEN 0
                                    ELSE TruncDiv(Atan2(S.xz, S.xx - S.zz), 2)

\* a line by ratio < 0.5 with a turned axis
C22_Witness ==
    /\ footprint # Null
    /\ Len(footprint[1].contacts) > 1
    /\ Moments(footprint[1].contacts).xx > 0
    /\ 4 * Moments(footprint[1].contacts).xx < Moments(footprint[1].contacts).zz
    /\ footprint[1].shape.shape = "line"
    /\ footprint[1].shape.orientation # 0

-----------------------------------------------------------------------------
(* Angle tracking, checked under SpecAngle *)

\* C23: with the angle not locked, calculateToolAngle returns the current
\* angle unchanged when the movement magnitude sqrt(dx^2 + dy^2) is below
\* 1e-3, and for every movement of magnitude 1e-3 or more it returns
\* angle + (atan2(dy, dx) - angle) * 0.15.
C23_MagnitudeThreshold ==
    (tracked.calls > 0 /\ ~tracked.lockAngle) =>
        LET dx == tracked.mousePosition[1] - tracked.from[1]
            dy == tracked.mousePosition[2] - tracked.from[2]
        IN  tracked.angle =
                IF dx * dx + dy * dy < 10 * 10 THEN tracked.currentAngle
                ELSE tracked.currentAngle + Blend(Atan2(dy, dx) - tracked.currentAngle)

-----------------------------------------------------------------------------
(* The free tool, checked under SpecScene *)

\* C25: in a frame of the tool mode in which the tool is not dragged and the
\* integrated tip is at or below the surface, the tool is lifted so that the
\* tip lies on the surface, the vertical velocity is inverted and scaled by
\* 0.85 only if it was negative and is otherwise kept, the horizontal
\* velocity is scaled by 0.95, and the tool is shifted sideways only when the
\* collision force is above 0.5; in a frame without penetration the tool is
\* where the integration put it, with the velocity gravity gave it (air
\* resistance, 0.98, applies to every velocity in either case).
C25_CollisionResponse ==
    (sceneFrame # Null /\ sceneFrame[1].before.mode = "tool"
                       /\ ~sceneFrame[1].before.isDragging) =>
        LET was  == sceneFrame[1].before
            vx   == was.toolVelocity[1]
            vy   == was.toolVelocity[2] + GRAVITY
            vz   == was.toolVelocity[3]
            px   == was.toolPosition[1] + TruncDiv(vx * FrameDelta, 1000)
            py   == was.toolPosition[2] + TruncDiv(vy * FrameDelta, 1000)
            pz   == was.toolPosition[3] + TruncDiv(vz * FrameDelta, 1000)
            tipY == calculateTipPosition(<< px, py, pz >>, scene.toolRotation)[2]
            air(v) == TruncDiv(v * 98, 100)
        IN  IF tipY <= SURFACE_Y
            THEN /\ calculateTipPosition(scene.toolPosition, scene.toolRotation)[2]
                        = SURFACE_Y
                 /\ scene.toolVelocity[2]
                        = air(IF vy < 0 THEN TruncDiv(-vy * 85, 100) ELSE vy)
                 /\ scene.toolVelocity[1] = air(TruncDiv(vx * 95, 100))
                 /\ scene.toolVelocity[3] = air(TruncDiv(vz * 95, 100))
                 /\ (scene.toolPosition[1] # px \/ scene.toolPosition[3] # pz) =>
                        (vy < 0 /\ 10 * TruncDiv(-vy * 85, 100) > 500000)
            ELSE /\ scene.toolPosition = << px, py, pz >>
                 /\ scene.toolVelocity = << air(vx), air(vy), air(vz) >>

\* a frame found the tip in the surface while the tool was moving up
C25_Witness ==
    /\ sceneFrame # Null
    /\ sceneFrame[1].before.mode = "tool"
    /\ ~sceneFrame[1].before.isDragging
    /\ Fallen(sceneFrame[1].before)[2] > 0
    /\ calculateTipPosition(Integrated(sceneFrame[1].before, FrameDelta),
                            scene.toolRotation)[2] < SURFACE_Y
    /\ scene.toolVelocity[2] > 0

-----------------------------------------------------------------------------
(* Width and opacity by tool kind, checked under SpecStyle *)

\* the last update queued for the in-progress stroke
LastStyled == pendingCurrent[Len(pendingCurrent)]

\* C27: for the tool kinds pencil and mechanicalPencil the width startStroke
\* and every accepted addPointToStroke set is the tool's base width whatever
\* the pressure, and the opacity is min(1, 0.3 + 0.7 * pressure); for brush,
\* crayon and pen the width set is larger for a larger pressure.
C27_PencilWidthConstant ==
    /\ (currentStroke # Null
          /\ currentStroke[1].toolType \in { "pencil", "mechanicalPencil" }) =>
            currentStroke[1].width = getBaseWidth(currentStroke[1].toolType)
    /\ (pendingCurrent # <<>> /\ InProgress # Null) =>
          LET s == InProgress[1]
              p == IF LastStyled.op = "set" THEN s.pressure ELSE LastStyled.pressure
          IN  IF s.toolType \in { "pencil", "mechanicalPencil" }
              THEN /\ s.width = getBaseWidth(s.toolType)
                   /\ s.opacity = Min(1000, 300 + (7 * p) \div 10)
              ELSE \A q \in StrokePressures :
                      /\ q < p => calculateWidth(q, s.toolType) < s.width
                      /\ q > p => calculateWidth(q, s.toolType) > s.width

\* a mechanical pencil's stroke has taken a point at another pressure than
\* the one it was started with
C27_Witness ==
    /\ pendingCurrent # <<>>
    /\ InProgress # Null
    /\ LastStyled.op = "append"
    /\ InProgress[1].toolType = "mechanicalPencil"
    /\ LastStyled.pressure # InProgress[1].pressure
    /\ Len(InProgress[1].points) > 1

-----------------------------------------------------------------------------
(* Completeness of the committed stroke, checked under SpecStroke *)

\* C28: the stroke endStroke commits holds, in order, the start point and
\* every point addPointToStroke accepted since the matching startStroke,
\* whether or not the component re-rendered between the calls.
C28_CommittedStrokeComplete ==
    [][ (CallStep("endStroke") /\ Len(Committed') > Len(Committed)) =>
          /\ InProgress # Null
          /\ Committed'[Len(Committed')].id = InProgress[1].id
          /\ Committed'[Len(Committed')].points = InProgress[1].points ]_vars

=============================================================================
